---------------------------- MODULE Spec2Model ----------------------------
(***************************************************************************)
(* Model of the streaming audio playback engine of cosmic-soundcloud       *)
(* (src/src/audio/player.rs, hls.rs, cache.rs, ytdlp.rs).                  *)
(*                                                                         *)
(* The worker is a single thread running a current-thread tokio runtime.   *)
(* Every `.await` of the worker is a suspension point; `pc` names the      *)
(* await the worker is suspended on and every worker action runs the       *)
(* synchronous code from one await to the next.  An `event_tx.send(..)     *)
(* .await` is modelled by putting the event into `outbox`; the action      *)
(* SendEvent completes the send when the bounded channel has room.         *)
(*                                                                         *)
(* Strings that the code inspects (URLs, key formats, methods, resolver    *)
(* output) are sequences of one-character strings.  Option<T> is a         *)
(* sequence of length 0 (None) or 1 (Some).  Times are integer clock       *)
(* units, volumes are f32 values in tenths (or NaN), byte buffers are       *)
(* sequences of string tokens naming the response body they came from.     *)
(***************************************************************************)
EXTENDS Integers, Sequences, FiniteSets, TLC

(***************************** bounds *************************************)
\* capacity of the command channel and of the event channel (32 each in the program)
CmdCap == 2
EvtCap == 2
\* number of commands of any kind the caller sends after its first one
MaxCmds == 1
\* number of commands the caller sends when it sends transport commands only
MaxTransportCmds == 3
\* last clock value
MaxTime == 3
\* largest number of media segments in a manifest
MaxProgressCmds == 4
MaxSelections == 2
MaxLookups == 3
InboxCap == 2
MaxSegs == 2

(***************************** Option<T> **********************************)
None == <<>>
Some(x) == <<x>>
IsSome(o) == Len(o) = 1
Unwrap(o) == o[1]

(***************************** f32 ****************************************)
\* a float is a number of tenths, or NaN
F(v) == [nan |-> FALSE, tenths |-> v]
NaN == [nan |-> TRUE, tenths |-> 0]

\* a < b on f32: false whenever an operand is NaN
Lt(a, b) == ~a.nan /\ ~b.nan /\ a.tenths < b.tenths

(***************************** strings ************************************)
\* str::contains: pat occurs in s as a contiguous substring
Contains(s, pat) ==
    \E i \in 0..(Len(s) - Len(pat)) :
        \A j \in 1..Len(pat) : s[i + j] = pat[j]

\* str::starts_with
StartsWith(s, pat) ==
    /\ Len(pat) <= Len(s)
    /\ \A j \in 1..Len(pat) : s[j] = pat[j]

IsWhite(c) == c \in {" ", "\n", "\t", "\r"}

RECURSIVE TrimStart(_)
TrimStart(s) ==
    IF s # <<>> /\ IsWhite(Head(s)) THEN TrimStart(Tail(s)) ELSE s

RECURSIVE TrimEnd(_)
TrimEnd(s) ==
    IF s # <<>> /\ IsWhite(s[Len(s)]) THEN TrimEnd(SubSeq(s, 1, Len(s) - 1)) ELSE s

\* str::trim
Trim(s) == TrimEnd(TrimStart(s))

\* a character that takes two bytes in UTF-8; every other character takes one
TwoByte == "U+00E9"
Utf8Len(c) == IF c = TwoByte THEN 2 ELSE 1

\* str::len: the length in bytes
RECURSIVE ByteLen(_)
ByteLen(s) == IF s = <<>> THEN 0 ELSE Utf8Len(Head(s)) + ByteLen(Tail(s))

\* str::is_char_boundary: n is the byte length of a prefix of s
is_char_boundary(s, n) == \E k \in 0..Len(s) : ByteLen(SubSeq(s, 1, k)) = n

S_m3u8      == <<".", "m", "3", "u", "8">>
S_playready == <<"p", "l", "a", "y", "r", "e", "a", "d", "y">>
S_widevine  == <<"w", "i", "d", "e", "v", "i", "n", "e">>
S_fairplay  == <<"f", "a", "i", "r", "p", "l", "a", "y">>
S_urnuuid   == <<"u", "r", "n", ":", "u", "u", "i", "d">>
S_AES       == <<"A", "E", "S">>
S_encrypted == <<"e", "n", "c", "r", "y", "p", "t", "e", "d">>

(***************************** inputs *************************************)
U_hls  == <<"s", ":", "/", "a", ".", "m", "3", "u", "8">>
U_prog == <<"s", ":", "/", "a">>
U_bad  == <<"a">>
\* number of bytes of a URL that the handlers write to the log
LogPrefix == 80
\* a URL in which byte LogPrefix is the second byte of a character
U_long == <<"s", ":", "/">> \o [i \in 1..(LogPrefix - 4) |-> "a"] \o <<TwoByte>>
StreamUrls == {U_hls, U_prog, U_bad}

U_page == <<"s", ":", "/", "p">>
PermalinkOpts == {None, Some(<<>>), Some(U_page)}

TrackIds == {1}
VolumeInputs == {F(-5), F(5), F(17), NaN}

\* Debug rendering of m3u8_rs::KeyMethod (format!("{:?}", key.method))
M_none      == <<"N", "o", "n", "e">>
M_aes128    == <<"A", "E", "S", "1", "2", "8">>
M_sampleaes == <<"S", "a", "m", "p", "l", "e", "A", "E", "S">>
M_other     == <<"O", "t", "h", "e", "r", "(", "x", ")">>

K_identity  == <<"i", "d", "e", "n", "t", "i", "t", "y">>
K_playready == <<"c", ".", "p", "l", "a", "y", "r", "e", "a", "d", "y">>
K_PlayReady == <<"c", ".", "P", "l", "a", "y", "R", "e", "a", "d", "y">>
K_widevine  == <<"w", "i", "d", "e", "v", "i", "n", "e", ".", "x">>
K_fairplay  == <<"x", ".", "f", "a", "i", "r", "p", "l", "a", "y">>
K_urnuuid   == <<"u", "r", "n", ":", "u", "u", "i", "d", ":", "9">>
U_key       == <<"s", ":", "/", "k">>

\* m3u8_rs::Key values that occur as #EXT-X-KEY tags
KeyTag(m, u, k) == [method |-> m, uri |-> u, iv |-> None, keyformat |-> k]
KeyTags ==
    { KeyTag(M_none, None, None),
      KeyTag(M_aes128, Some(U_key), None),
      KeyTag(M_aes128, None, None),
      KeyTag(M_other, Some(U_key), Some(K_identity)),
      KeyTag(M_none, None, Some(K_PlayReady)),
      KeyTag(M_sampleaes, None, Some(K_playready)),
      KeyTag(M_sampleaes, Some(U_key), Some(K_urnuuid)),
      KeyTag(M_other, None, Some(K_widevine)),
      KeyTag(M_none, None, Some(K_fairplay)) }

\* relative URI of media segment i and of the init segment
SegUri(i) == <<"g">> \o [j \in 1..i |-> "x"]
InitUri == <<"i">>

\* a media playlist document: n segments, the first one carrying the key tag
\* `key` and the EXT-X-MAP `map` when these are present
MediaDoc(n, key, map) ==
    [kind |-> "media",
     segments |-> [i \in 1..n |->
        [uri |-> SegUri(i),
         key |-> IF i = 1 THEN key ELSE None,
         map |-> IF i = 1 THEN map ELSE None,
         byte_range |-> None]]]
MasterDoc  == [kind |-> "master", segments |-> <<>>]
GarbageDoc == [kind |-> "garbage", segments |-> <<>>]

MediaDocs ==
    { MediaDoc(n, key, map) :
        n \in 0..MaxSegs,
        key \in {None} \cup {Some(k) : k \in KeyTags},
        map \in {None, Some(InitUri)} }

(***************************** transport **********************************)
\* outcome of client.get(url).send().await followed by response.bytes().await:
\* a transport error, or a response with a status and a body
HttpErr == [err |-> TRUE, status |-> 0, body |-> <<>>]
ManifestErr == [err |-> TRUE, status |-> 0, body |-> GarbageDoc]
HttpResp(st, b) == [err |-> FALSE, status |-> st, body |-> b]
Is2xx(st) == st >= 200 /\ st < 300
\* a response arrived and its status is not a success
NonSuccess(resp) == ~resp.err /\ ~Is2xx(resp.status)

\* body tokens: the payload of media segment i, of the init segment, of a
\* progressive file, and the body of a non-2xx response
SegTok(i) == ToString(i)
InitTok == "init"
ProgTok == "prog"
ErrTok  == "err"

\* str::rsplit_once('/') followed by .map(|(b, _)| b).unwrap_or(base_url)
RECURSIVE BaseOf(_, _)
BaseOf(url, n) ==
    IF n = 0 THEN url
    ELSE IF url[n] = "/" THEN SubSeq(url, 1, n - 1)
    ELSE BaseOf(url, n - 1)

\* the last path component of a URL
Leaf(url) == SubSeq(url, Len(BaseOf(url, Len(url))) + 2, Len(url))

\* the payload the origin holds at a URL
PayloadOf(url) ==
    IF Leaf(url) = InitUri THEN InitTok
    ELSE IF \E i \in 1..MaxSegs : Leaf(url) = SegUri(i)
    THEN SegTok(CHOOSE i \in 1..MaxSegs : Leaf(url) = SegUri(i))
    ELSE ProgTok

\* what the network can answer to the GET of a byte payload whose content is tok
ByteResponses(tok) ==
    {HttpErr, HttpResp(200, <<tok>>), HttpResp(200, <<>>), HttpResp(404, <<ErrTok>>)}

\* what the network can answer to the GET of a manifest
ManifestResponses ==
    {ManifestErr} \cup {HttpResp(200, d) : d \in MediaDocs \cup {MasterDoc, GarbageDoc}}
              \cup {HttpResp(404, d) : d \in {GarbageDoc, MediaDoc(1, None, None)}}

\* what running the resolver process can produce
ProcFail == [launched |-> FALSE, success |-> FALSE, stdout |-> <<>>]
ProcOut(ok, out) == [launched |-> TRUE, success |-> ok, stdout |-> out]
ResolverRuns ==
    { ProcFail, ProcOut(FALSE, <<>>), ProcOut(TRUE, <<>>), ProcOut(TRUE, <<" ", "\n">>),
      ProcOut(TRUE, U_hls \o <<"\n">>) }

\* the answers to a request: the one given before when the network repeats its
\* answers and the request was made before, any of `fresh` otherwise
Answers(tbl, key, fresh) ==
    IF \E e \in tbl : e[1] = key THEN {e[2] : e \in {x \in tbl : x[1] = key}} ELSE fresh

\* the tables of answers after one more manifest, payload or resolver answer
NoteM(sn, url, resp) == IF sn.on THEN [sn EXCEPT !.m = @ \cup {<<url, resp>>}] ELSE sn
NoteB(sn, url, resp) == IF sn.on THEN [sn EXCEPT !.b = @ \cup {<<url, resp>>}] ELSE sn
NoteR(sn, page, run) == IF sn.on THEN [sn EXCEPT !.r = @ \cup {<<page, run>>}] ELSE sn

(***************************** Result<T> **********************************)
Ok(v) == [ok |-> TRUE, val |-> <<v>>]
Err(e) == [ok |-> FALSE, val |-> <<e>>]

(***************************** hls.rs *************************************)
\* absolute URIs pass through, others are joined to the base with '/'
\* a resolution that appends the URI to the base without a separator
ResolveUri_NoSeparator(base, uri) ==
    IF StartsWith(uri, <<"h", "t", "t", "p">>) THEN uri ELSE base \o uri

ResolveUri(base, uri) ==
    IF StartsWith(uri, <<"h", "t", "t", "p">>) THEN uri ELSE base \o <<"/">> \o uri

\* seg.byte_range.as_ref().map(|br| (br.length, br.offset.unwrap_or(0)))
ByteRangeOf(br) ==
    IF IsSome(br)
    THEN Some(<<Unwrap(br).length,
                IF IsSome(Unwrap(br).offset) THEN Unwrap(Unwrap(br).offset) ELSE 0>>)
    ELSE None

\* iter().find_map(|s| s.f.as_ref()): the first Some among segs[i][f]
RECURSIVE FindMapFrom(_, _, _)
FindMapFrom(segs, f, i) ==
    IF i > Len(segs) THEN None
    ELSE IF IsSome(segs[i][f]) THEN segs[i][f]
    ELSE FindMapFrom(segs, f, i + 1)

\* a parser that takes the key tag of the last segment that carries one
parse_media_playlist_LastKey(doc, base_url) ==
    LET base == BaseOf(base_url, Len(base_url))
        tagged == {i \in 1..Len(doc.segments) : IsSome(doc.segments[i].key)}
        key  == IF tagged = {} THEN None
                ELSE doc.segments[CHOOSE i \in tagged : \A j \in tagged : j <= i].key
        map  == FindMapFrom(doc.segments, "map", 1)
    IN  [segments |-> [i \in 1..Len(doc.segments) |->
                          [uri |-> ResolveUri(base, doc.segments[i].uri),
                           byte_range |-> ByteRangeOf(doc.segments[i].byte_range)]],
         encryption |-> key,
         init_segment_url |-> IF IsSome(map)
                              THEN Some(ResolveUri(base, Unwrap(map)))
                              ELSE None]

parse_media_playlist(doc, base_url) ==
    LET base == BaseOf(base_url, Len(base_url))
        key  == FindMapFrom(doc.segments, "key", 1)
        map  == FindMapFrom(doc.segments, "map", 1)
    IN  [segments |-> [i \in 1..Len(doc.segments) |->
                          [uri |-> ResolveUri(base, doc.segments[i].uri),
                           byte_range |-> ByteRangeOf(doc.segments[i].byte_range)]],
         encryption |-> IF IsSome(key)
                        THEN Some([method |-> Unwrap(key).method,
                                   uri |-> Unwrap(key).uri,
                                   iv |-> Unwrap(key).iv,
                                   keyformat |-> Unwrap(key).keyformat])
                        ELSE None,
         init_segment_url |-> IF IsSome(map)
                              THEN Some(ResolveUri(base, Unwrap(map)))
                              ELSE None]

\* a fetch that takes a master playlist for a media playlist without segments
fetch_playlist_AcceptsMaster(resp, url) ==
    IF resp.err THEN Err("Failed to fetch playlist")
    ELSE IF resp.body.kind \in {"media", "master"} THEN Ok(parse_media_playlist(resp.body, url))
    ELSE Err("Failed to parse playlist")

\* fetch_playlist: the response status is not inspected
fetch_playlist(resp, url) ==
    IF resp.err THEN Err("Failed to fetch playlist")
    ELSE IF resp.body.kind = "media" THEN Ok(parse_media_playlist(resp.body, url))
    ELSE IF resp.body.kind = "master" THEN Err("Master playlists not yet supported")
    ELSE Err("Failed to parse playlist")

\* download_segment: the response status is not inspected
download_segment(resp) ==
    IF resp.err THEN Err("Failed to fetch segment") ELSE Ok(resp.body)

(***************************** ytdlp.rs ***********************************)
extract_stream_url(run) ==
    IF ~run.launched THEN Err("Failed to run yt-dlp")
    ELSE IF ~run.success THEN Err("yt-dlp failed")
    ELSE IF Trim(run.stdout) = <<>> THEN Err("yt-dlp returned empty URL")
    ELSE Ok(Trim(run.stdout))

(***************************** cache.rs ***********************************)
\* the cache directory as a map from file name to Option<bytes>: None for a name
\* without a file

\* a file name that does not depend on the track
cache_path_Shared(id) == "track.audio"

\* cache_path: format!("{track_id}.audio") inside the cache directory
cache_path(id) == ToString(id) \o ".audio"

\* p.exists()
has_cached(c, id) == IsSome(c[cache_path(id)])
\* std::fs::read(path).ok(): None also when the file exists and reading it fails
read_cached(c, id, io_ok) == IF io_ok THEN c[cache_path(id)] ELSE None
\* std::fs::write(path, data) that succeeded
write_cached(c, id, data) == [c EXCEPT ![cache_path(id)] = Some(data)]
\* std::fs::remove_file(path), its result ignored
remove_cached(c, id) == [c EXCEPT ![cache_path(id)] = None]

(***************************** player.rs: pure parts **********************)
\* the keyformat test of play_hls
is_commercial_drm(enc) ==
    /\ IsSome(enc.keyformat)
    /\ \/ Contains(Unwrap(enc.keyformat), S_playready)
       \/ Contains(Unwrap(enc.keyformat), S_widevine)
       \/ Contains(Unwrap(enc.keyformat), S_fairplay)
       \/ Contains(Unwrap(enc.keyformat), S_urnuuid)

\* the condition of play_hls under which the fallback branch is entered
play_needs_fallback(enc) ==
    is_commercial_drm(enc) \/ (Contains(enc.method, S_AES) /\ IsSome(enc.uri))

\* the keyformat test of download_hls_data
preload_is_commercial_drm(enc) ==
    /\ IsSome(enc.keyformat)
    /\ \/ Contains(Unwrap(enc.keyformat), S_playready)
       \/ Contains(Unwrap(enc.keyformat), S_widevine)
       \/ Contains(Unwrap(enc.keyformat), S_fairplay)
       \/ Contains(Unwrap(enc.keyformat), S_urnuuid)

\* the condition of download_hls_data without its AES clause
preload_needs_fallback_keyformat_only(enc) == preload_is_commercial_drm(enc)

\* the condition of download_hls_data under which the fallback branch is entered
preload_needs_fallback(enc) ==
    preload_is_commercial_drm(enc) \/ (Contains(enc.method, S_AES) /\ IsSome(enc.uri))

\* enc.keyformat.as_deref().unwrap_or("encrypted")
drm_type_of(enc) == IF IsSome(enc.keyformat) THEN Unwrap(enc.keyformat) ELSE S_encrypted

\* permalink_url.unwrap_or("")
track_url_of(permalink) == IF IsSome(permalink) THEN Unwrap(permalink) ELSE <<>>

\* url.contains(".m3u8")
is_hls_url(url) == Contains(url, S_m3u8)

\* url.parse::<reqwest::Url>() succeeds only for a URL with a scheme
url_parses(url) == \E i \in 2..Len(url) : url[i] = ":"

\* &url[..url.len().min(80)] panics when the end of the slice is inside a character
log_prefix_panics(url) ==
    LET n == IF ByteLen(url) < LogPrefix THEN ByteLen(url) ELSE LogPrefix
    IN  ~is_char_boundary(url, n)

\* f32::clamp: a NaN compares false with both limits and is returned as it is
clamp(v, lo, hi) == IF Lt(v, lo) THEN lo ELSE IF Lt(hi, v) THEN hi ELSE v

(***************************** state **************************************)
VARIABLES
    cmdq,             \* command channel (caller -> worker)
    evq,              \* event channel (worker -> consumer)
    outbox,           \* events of the pending event_tx.send(..).await calls, in order
    pc,               \* the await the worker is suspended on
    cur,              \* the command being handled
    sink,             \* AudioPlayer.sink: Option<Sink>
    volume,           \* AudioPlayer.volume
    playback_start,   \* AudioPlayer.playback_start: Option<Instant>
    accumulated_time, \* AudioPlayer.accumulated_time
    is_paused,        \* AudioPlayer.is_paused
    was_playing,      \* local of the select loop
    cache,            \* the audio cache directory
    now,              \* the clock read by Instant::now()
    playlist,         \* the HlsStream whose segments are being downloaded (the
                      \* download reads its segments and init_segment_url only)
    seg_i,            \* index of the segment being downloaded
    buf,              \* audio_data / data handed to the decoder
    from_cache,       \* play_from_data was called from the cache branch of play_url
    fetch_url,        \* the URL of the manifest being fetched
    menu,             \* for each command the caller will send, the set it chooses from
    \* history variables
    sent,             \* number of commands sent so far
    cmdq_id,          \* send order of the commands in cmdq
    handled,          \* number of commands dequeued so far
    evq_by,           \* for each event in evq, the value of handled when it was sent
    emitted,          \* events sent since the current command was dequeued (ticks excluded)
    last_kind,        \* kind of the last command whose handler completed
    unpaused,         \* time the current sink has spent not paused
    alt,              \* Pause/Resume have strictly alternated since the sink was installed
    peak_sinks,       \* largest number of Sink objects alive at once
    resolver_calls,   \* resolver invocations of the current command
    fetches,          \* completed network requests of the current command
    decoded,          \* buffers handed to Decoder::new by the current command
    decision,         \* the descriptor classified by the step just taken and its branch
    fb_protected,     \* the manifest behind the resolver's URL needs the fallback by the rule
    lookup,           \* outcome of the cache lookup of the current Play or Preload
    bad_status,       \* the current command received a non-2xx response
    hist,             \* facts about earlier steps that later steps are compared with
    seen,             \* the answers given so far, when the network repeats its answers
    probe,            \* the last call of the cache module or of the playlist parser
                      \* made on its own, and its result
    evt_rx_open,      \* the receiver of the event channel has not been dropped
    ui                \* AppModel: the fields of the user interface that concern playback,
                      \* the messages waiting for update() and the lookups in flight

vCaller == <<cmdq, cmdq_id, sent, menu>>
vEvq    == <<evq, evq_by, emitted, evt_rx_open>>
vEng    == <<sink, volume, playback_start, accumulated_time, is_paused>>
vLocals == <<playlist, seg_i, buf, from_cache, fetch_url>>
vSinkH  == <<unpaused, alt, peak_sinks>>
vNetH   == <<resolver_calls, fetches, decoded, decision, fb_protected, lookup, bad_status>>
vNetC   == <<resolver_calls, fetches, decoded, fb_protected, lookup, bad_status>>
vars == <<cmdq, evq, outbox, pc, cur, sink, volume, playback_start, accumulated_time,
          is_paused, was_playing, cache, now, playlist, seg_i, buf, from_cache, fetch_url,
          menu,
          sent, cmdq_id, handled, evq_by, emitted, last_kind, unpaused, alt,
          peak_sinks, resolver_calls, fetches, decoded, decision, fb_protected,
          lookup, bad_status, hist, seen, probe, evt_rx_open, ui>>

(***************************** commands and events ************************)
Play(t, u, p)    == [kind |-> "Play", track_id |-> t, stream_url |-> u, permalink_url |-> p]
Preload(t, u, p) == [kind |-> "Preload", track_id |-> t, stream_url |-> u, permalink_url |-> p]
Pause            == [kind |-> "Pause"]
Resume           == [kind |-> "Resume"]
Stop             == [kind |-> "Stop"]
SetVolume(v)     == [kind |-> "SetVolume", vol |-> v]
NoCmd            == [kind |-> "None"]

Commands ==
    {Play(t, u, p) : t \in {None} \cup {Some(i) : i \in TrackIds},
                     u \in StreamUrls, p \in PermalinkOpts}
    \cup {Preload(t, u, p) : t \in TrackIds, u \in StreamUrls, p \in PermalinkOpts}
    \cup {Pause, Resume, Stop}
    \cup {SetVolume(v) : v \in VolumeInputs}

Ready              == <<"Ready">>
Playing            == <<"Playing">>
Paused             == <<"Paused">>
Stopped            == <<"Stopped">>
Finished           == <<"Finished">>
Buffering(b)       == <<"Buffering", b>>
Error(m)           == <<"Error", m>>
DrmProtected(d, u) == <<"DrmProtected", d, u>>
Position(e)        == <<"Position", e>>
PreloadComplete(t) == <<"PreloadComplete", t>>

EmptyStream == [segments |-> <<>>, encryption |-> None, init_segment_url |-> None]
NewSink(v) == [volume |-> v, paused |-> FALSE, empty |-> FALSE]

\* the awaits that wait for the network
NetPcs == {"hls_fetch_playlist", "hls_fetch_fallback", "seg_init", "seg_fetch",
           "prog_open", "pre_fetch_playlist", "pre_fetch_fallback", "pre_prog"}

\* the transport controls, with one progressive track to play
TransportCommands ==
    {Play(None, U_prog, None), Pause, Resume, Stop} \cup {SetVolume(v) : v \in VolumeInputs}

\* what a cache file left by an earlier run can hold
CacheFiles == {None, Some(<<ProgTok>>)}

\* a first command that leaves the engine with or without a sink
SetupCommands == {Play(None, U_prog, None), Stop}

\* nothing has happened yet
NoStore == [data |-> None, ok |-> FALSE]
InitHist ==
    [first   |-> "none",   \* kind of the first event put on the event channel
     readies |-> 0,        \* number of Ready events put on the event channel
     fin     |-> 0,        \* Finished events queued since the last Play completed
     since   |-> "none",   \* the later of the last Play and the last Stop completed
     clean   |-> TRUE,     \* every segment request of the command returned its payload
     master  |-> FALSE,    \* a manifest request of the command returned a master playlist
     late    |-> FALSE,    \* a Stop or Play was sent while the command waited for the network
     stored  |-> NoStore]  \* audio_data of the last Preload, and whether it was written

\* no call of the cache module made on its own
NoProbe == [op |-> "none", id |-> 0, data |-> None, ok |-> FALSE, found |-> FALSE]

\* no user interface
NoUi == [current_tab |-> "none"]

\* the worker and its channels after construction
InitWorker(m, ids, files, repeat) ==
    /\ menu = m
    /\ hist = InitHist
    /\ seen = [on |-> repeat, m |-> {}, b |-> {}, r |-> {}]
    /\ cmdq = <<>> /\ evq = <<>> /\ outbox = <<>>
    /\ evt_rx_open = TRUE
    /\ pc = "boot" /\ cur = NoCmd
    /\ sink = None /\ volume = F(8)
    /\ playback_start = None /\ accumulated_time = 0 /\ is_paused = FALSE
    /\ was_playing = FALSE
    /\ cache \in [{cache_path(i) : i \in ids} -> files]
    /\ now = 0
    /\ playlist = EmptyStream /\ seg_i = 0 /\ buf = <<>> /\ from_cache = FALSE
    /\ fetch_url = <<>>
    /\ sent = 0 /\ cmdq_id = <<>> /\ handled = 0 /\ evq_by = <<>>
    /\ emitted = <<>> /\ last_kind = "None"
    /\ unpaused = 0 /\ alt = FALSE /\ peak_sinks = 0
    /\ resolver_calls = 0 /\ fetches = 0 /\ decoded = <<>> /\ decision = None
    /\ fb_protected = FALSE /\ lookup = "none" /\ bad_status = FALSE

\* the state after construction, but for the register of calls made on their own
InitEngine(m, ids, files, repeat) ==
    /\ ui = NoUi
    /\ InitWorker(m, ids, files, repeat)

InitWith(m, ids, files, repeat) ==
    /\ probe = NoProbe
    /\ InitEngine(m, ids, files, repeat)

Init == InitWith(<<SetupCommands>> \o [i \in 1..MaxCmds |-> Commands], TrackIds, CacheFiles, FALSE)
\* a Play followed by transport commands, sent faster than they are handled
ProgressCommands == {Pause, Resume, Stop}
InitProgress ==
    InitWith(<<{Play(None, U_prog, None)}>> \o [i \in 1..(MaxProgressCmds - 1) |-> ProgressCommands],
             TrackIds, {None}, FALSE)

InitTransport ==
    InitWith([i \in 1..MaxTransportCmds |-> TransportCommands], TrackIds, {None}, FALSE)
\* a Preload followed by a Play of the same stream, with or without the track id,
\* while the network and the resolver repeat their answers
InitReplay ==
    \E u \in StreamUrls, p \in PermalinkOpts :
        InitWith(<<{Preload(1, u, p)}, {Play(None, u, p), Play(Some(1), u, p)}>>,
                 TrackIds, {None}, TRUE)

\* commands with URLs whose log line panics, and commands that work
PanicCommands ==
    {Play(None, U_long, None), Preload(1, U_long, None),
     Play(None, U_prog, None), Preload(1, U_prog, None), Stop}
InitPanic == InitWith([i \in 1..MaxTransportCmds |-> PanicCommands], TrackIds, {None}, FALSE)

(***************************** environment ********************************)
\* a send of Stop or Play that makes the worker abandon the request it waits for
CallerSend_Aborts ==
    /\ sent < Len(menu)
    /\ Len(cmdq) < CmdCap
    /\ \E c \in menu[sent + 1] :
         /\ cmdq' = Append(cmdq, c)
         /\ hist' = [hist EXCEPT !.late = @ \/ (pc \in NetPcs /\ c.kind \in {"Stop", "Play"})]
         /\ pc' = IF pc \in NetPcs /\ c.kind \in {"Stop", "Play"} THEN "done" ELSE pc
    /\ sent' = sent + 1
    /\ cmdq_id' = Append(cmdq_id, sent + 1)
    /\ UNCHANGED <<ui, probe, seen, menu, evq, outbox, cur, vEng, was_playing, cache, now, vLocals,
                   handled, evq_by, emitted, evt_rx_open, last_kind, vSinkH, vNetH>>

\* the caller sends a command (cmd_tx); blocked while the channel is full
CallerSend ==
    /\ sent < Len(menu)
    /\ Len(cmdq) < CmdCap
    /\ \E c \in menu[sent + 1] :
         /\ cmdq' = Append(cmdq, c)
         /\ hist' = [hist EXCEPT !.late = @ \/ (pc \in NetPcs /\ c.kind \in {"Stop", "Play"})]
    /\ sent' = sent + 1
    /\ cmdq_id' = Append(cmdq_id, sent + 1)
    /\ UNCHANGED <<ui, probe, seen, menu, evq, outbox, pc, cur, vEng, was_playing, cache, now, vLocals,
                   handled, evq_by, emitted, evt_rx_open, last_kind, vSinkH, vNetH>>

\* the consumer receives the next event (evt_rx.recv())
Consume ==
    /\ evt_rx_open
    /\ evq # <<>>
    /\ evq' = Tail(evq)
    /\ evq_by' = Tail(evq_by)
    /\ UNCHANGED <<ui, evt_rx_open, probe, hist, seen, vCaller, outbox, pc, cur, vEng, was_playing, cache, now,
                   vLocals, handled, emitted, last_kind, vSinkH, vNetH>>

\* the consumer goes away: the subscription that owns evt_rx is cancelled, the
\* receiver is dropped and the events still in the channel with it
DropReceiver ==
    /\ evt_rx_open
    /\ evt_rx_open' = FALSE
    /\ evq' = <<>>
    /\ evq_by' = <<>>
    /\ UNCHANGED <<ui, probe, hist, seen, vCaller, outbox, pc, cur, vEng, was_playing, cache, now,
                   vLocals, handled, emitted, last_kind, vSinkH, vNetH>>

\* time passes while the worker waits: in the select, for the network, or for
\* room in the event channel (synchronous code and unblocked sends take no time)
Advance ==
    /\ now < MaxTime
    /\ \/ pc \in {"select", "dead"} \cup NetPcs
       \/ outbox # <<>> /\ Len(evq) = EvtCap
    /\ now' = now + 1
    /\ unpaused' = IF IsSome(sink) /\ ~Unwrap(sink).paused THEN unpaused + 1 ELSE unpaused
    /\ UNCHANGED <<ui, probe, hist, seen, vCaller, vEvq, outbox, pc, cur, vEng, was_playing, cache, vLocals,
                   handled, last_kind, alt, peak_sinks, vNetH>>

\* the playing sink runs out of samples (Sink::empty() becomes true)
Drain ==
    /\ IsSome(sink)
    /\ ~Unwrap(sink).paused /\ ~Unwrap(sink).empty
    /\ sink' = Some([Unwrap(sink) EXCEPT !.empty = TRUE])
    /\ UNCHANGED <<ui, probe, hist, seen, vCaller, vEvq, outbox, pc, cur, volume, playback_start,
                   accumulated_time, is_paused, was_playing, cache, now, vLocals,
                   handled, last_kind, vSinkH, vNetH>>

(***************************** event sends ********************************)
\* a send that gives up the event when the channel is full
SendEvent_DropWhenFull ==
    /\ outbox # <<>>
    /\ evq' = IF Len(evq) < EvtCap THEN Append(evq, Head(outbox)) ELSE evq
    /\ evq_by' = IF Len(evq) < EvtCap THEN Append(evq_by, handled) ELSE evq_by
    /\ emitted' = IF pc = "tick" THEN emitted ELSE Append(emitted, Head(outbox))
    /\ outbox' = Tail(outbox)
    /\ decision' = None
    /\ hist' = [hist EXCEPT !.first = IF @ = "none" THEN Head(outbox)[1] ELSE @,
                            !.readies = IF Head(outbox) = Ready THEN @ + 1 ELSE @]
    /\ UNCHANGED <<ui, evt_rx_open, probe, seen, vCaller, pc, cur, vEng, was_playing, cache, now,
                   vLocals, handled, last_kind, vSinkH, vNetC>>

\* a send that keeps waiting for a receiver that is gone
SendEvent_WaitsForReceiver ==
    /\ outbox # <<>>
    /\ evt_rx_open /\ Len(evq) < EvtCap
    /\ evq' = Append(evq, Head(outbox))
    /\ evq_by' = Append(evq_by, handled)
    /\ emitted' = IF pc = "tick" THEN emitted ELSE Append(emitted, Head(outbox))
    /\ outbox' = Tail(outbox)
    /\ decision' = None
    /\ hist' = [hist EXCEPT !.first = IF @ = "none" THEN Head(outbox)[1] ELSE @,
                            !.readies = IF Head(outbox) = Ready THEN @ + 1 ELSE @]
    /\ UNCHANGED <<ui, evt_rx_open, probe, seen, vCaller, pc, cur, vEng, was_playing, cache, now,
                   vLocals, handled, last_kind, vSinkH, vNetC>>

\* the pending event_tx.send(ev).await completes once the channel has room; it
\* returns an error at once when the receiver is gone, which `let _ =` ignores
SendEvent ==
    /\ outbox # <<>>
    /\ ~evt_rx_open \/ Len(evq) < EvtCap
    /\ evq' = IF evt_rx_open THEN Append(evq, Head(outbox)) ELSE evq
    /\ evq_by' = IF evt_rx_open THEN Append(evq_by, handled) ELSE evq_by
    /\ emitted' = IF pc = "tick" THEN emitted ELSE Append(emitted, Head(outbox))
    /\ outbox' = Tail(outbox)
    /\ decision' = None
    /\ hist' = [hist EXCEPT !.first = IF @ = "none" THEN Head(outbox)[1] ELSE @,
                            !.readies = IF Head(outbox) = Ready THEN @ + 1 ELSE @]
    /\ UNCHANGED <<ui, evt_rx_open, probe, seen, vCaller, pc, cur, vEng, was_playing, cache, now,
                   vLocals, handled, last_kind, vSinkH, vNetC>>

(***************************** spawn **************************************)
\* a start that enters the loop although the device could not be acquired
Spawn_Acquire_NoReturn ==
    /\ pc = "boot"
    /\ \E ok \in BOOLEAN :
         IF ok THEN outbox' = <<Ready>> /\ pc' = "done"
               ELSE outbox' = <<Error("Failed to create audio output")>> /\ pc' = "done"
    /\ UNCHANGED <<ui, probe, hist, seen, vCaller, vEvq, cur, vEng, was_playing, cache, now, vLocals,
                   handled, last_kind, vSinkH, vNetH>>

\* OutputStream::try_default(), then Ready or the fatal Error
Spawn_Acquire ==
    /\ pc = "boot"
    /\ \E ok \in BOOLEAN :
         IF ok THEN outbox' = <<Ready>> /\ pc' = "done"
               ELSE outbox' = <<Error("Failed to create audio output")>> /\ pc' = "dead"
    /\ UNCHANGED <<ui, probe, hist, seen, vCaller, vEvq, cur, vEng, was_playing, cache, now, vLocals,
                   handled, last_kind, vSinkH, vNetH>>

(***************************** select loop ********************************)
\* a receive that does not wait for the handler of the previous command
Recv_WhileBusy ==
    /\ pc \in {"select"} \cup NetPcs
    /\ cmdq # <<>>
    /\ cur' = Head(cmdq)
    /\ cmdq' = Tail(cmdq)
    /\ cmdq_id' = Tail(cmdq_id)
    /\ handled' = handled + 1
    /\ pc' = "cmd"
    /\ UNCHANGED <<ui, probe, hist, seen, sent, menu, vEvq, outbox, vEng, was_playing, cache, now,
                   vLocals, last_kind, vSinkH, vNetH>>

\* cmd = cmd_rx.recv() is selected
Recv ==
    /\ pc = "select" /\ outbox = <<>>
    /\ cmdq # <<>>
    /\ cur' = Head(cmdq)
    /\ cmdq' = Tail(cmdq)
    /\ cmdq_id' = Tail(cmdq_id)
    /\ handled' = handled + 1
    /\ pc' = "cmd"
    /\ UNCHANGED <<ui, probe, hist, seen, sent, menu, vEvq, outbox, vEng, was_playing, cache, now,
                   vLocals, last_kind, vSinkH, vNetH>>

\* the handler has returned to the loop: the statements after the handler call
Finish ==
    /\ pc = "done" /\ outbox = <<>>
    /\ was_playing' = IF cur.kind = "Play" THEN TRUE
                      ELSE IF cur.kind = "Stop" THEN FALSE
                      ELSE was_playing
    /\ pc' = "select"
    /\ last_kind' = cur.kind
    /\ cur' = NoCmd
    /\ playlist' = EmptyStream /\ seg_i' = 0 /\ buf' = <<>> /\ from_cache' = FALSE
    /\ fetch_url' = <<>>
    /\ emitted' = <<>>
    /\ resolver_calls' = 0 /\ fetches' = 0 /\ decoded' = <<>> /\ decision' = None
    /\ fb_protected' = FALSE /\ lookup' = "none" /\ bad_status' = FALSE
    /\ hist' = [hist EXCEPT
                  !.fin = IF cur.kind = "Play" THEN 0 ELSE @,
                  !.since = IF cur.kind \in {"Play", "Stop"} THEN cur.kind ELSE @,
                  !.clean = TRUE,
                  !.master = FALSE,
                  !.late = FALSE,
                  !.stored = IF cur.kind = "Preload"
                             THEN [data |-> IF buf # <<>> THEN Some(buf) ELSE None,
                                   ok |-> /\ lookup # "cached"
                                          /\ \E i \in DOMAIN emitted :
                                                emitted[i][1] = "PreloadComplete"]
                             ELSE @]
    /\ UNCHANGED <<ui, probe, seen, vCaller, evq, evq_by, evt_rx_open, outbox, vEng, cache, now,
                   handled, vSinkH>>

\* a tick that reports positions without looking at was_playing
Tick_IgnoresFlag ==
    /\ pc = "select" /\ outbox = <<>>
    /\ pc' = "tick"
    /\ IF was_playing /\ IsSome(sink) /\ Unwrap(sink).empty
       THEN /\ was_playing' = FALSE
            /\ playback_start' = None
            /\ accumulated_time' = 0
            /\ outbox' = <<Finished>>
            /\ hist' = [hist EXCEPT !.fin = @ + 1]
       ELSE /\ UNCHANGED <<was_playing, playback_start, accumulated_time, hist>>
            /\ outbox' = IF ~is_paused /\ IsSome(playback_start)
                         THEN <<Position((now - Unwrap(playback_start)) + accumulated_time)>>
                         ELSE <<>>
    /\ UNCHANGED <<ui, probe, seen, vCaller, vEvq, cur, sink, volume, is_paused, cache, now, vLocals,
                   handled, last_kind, vSinkH, vNetH>>

\* a tick that reports positions and never looks at the state of the sink
Tick_PositionOnly ==
    /\ pc = "select" /\ outbox = <<>>
    /\ pc' = "tick"
    /\ outbox' = IF was_playing /\ ~is_paused /\ IsSome(playback_start)
                 THEN <<Position((now - Unwrap(playback_start)) + accumulated_time)>>
                 ELSE <<>>
    /\ UNCHANGED <<ui, probe, hist, seen, vCaller, vEvq, cur, vEng, was_playing, cache, now,
                   vLocals, handled, last_kind, vSinkH, vNetH>>

\* a tick that leaves was_playing set when it reports the end of the track
Tick_KeepsFlag ==
    /\ pc = "select" /\ outbox = <<>>
    /\ pc' = "tick"
    /\ IF was_playing /\ IsSome(sink) /\ Unwrap(sink).empty
       THEN /\ playback_start' = None
            /\ accumulated_time' = 0
            /\ outbox' = <<Finished>>
            /\ hist' = [hist EXCEPT !.fin = @ + 1]
       ELSE /\ UNCHANGED <<playback_start, accumulated_time, hist>>
            /\ outbox' = IF was_playing /\ ~is_paused /\ IsSome(playback_start)
                         THEN <<Position((now - Unwrap(playback_start)) + accumulated_time)>>
                         ELSE <<>>
    /\ UNCHANGED <<ui, probe, seen, vCaller, vEvq, cur, sink, volume, is_paused, was_playing, cache, now,
                   vLocals, handled, last_kind, vSinkH, vNetH>>

\* check_interval.tick() is selected
Tick ==
    /\ pc = "select" /\ outbox = <<>>
    /\ pc' = "tick"
    /\ IF was_playing /\ IsSome(sink) /\ Unwrap(sink).empty
       THEN /\ was_playing' = FALSE
            /\ playback_start' = None
            /\ accumulated_time' = 0
            /\ outbox' = <<Finished>>
            /\ hist' = [hist EXCEPT !.fin = @ + 1]
       ELSE /\ UNCHANGED <<was_playing, playback_start, accumulated_time, hist>>
            /\ outbox' = IF was_playing /\ ~is_paused /\ IsSome(playback_start)
                         THEN <<Position((now - Unwrap(playback_start)) + accumulated_time)>>
                         ELSE <<>>
    /\ UNCHANGED <<ui, probe, seen, vCaller, vEvq, cur, sink, volume, is_paused, cache, now, vLocals,
                   handled, last_kind, vSinkH, vNetH>>

\* the tick branch is complete
TickDone ==
    /\ pc = "tick" /\ outbox = <<>>
    /\ pc' = "select"
    /\ UNCHANGED <<ui, probe, hist, seen, vCaller, vEvq, outbox, cur, vEng, was_playing, cache, now, vLocals,
                   handled, last_kind, vSinkH, vNetH>>

(***************************** transport commands *************************)
\* stop that sends Stopped whether or not a sink was active
stop_always_sends ==
    /\ sink' = None
    /\ playback_start' = None
    /\ accumulated_time' = 0
    /\ is_paused' = FALSE
    /\ outbox' = <<Stopped>>
    /\ unpaused' = 0 /\ alt' = FALSE

\* AudioPlayer::stop up to its send
stop ==
    IF IsSome(sink)
    THEN /\ sink' = None
         /\ playback_start' = None
         /\ accumulated_time' = 0
         /\ is_paused' = FALSE
         /\ outbox' = <<Stopped>>
         /\ unpaused' = 0 /\ alt' = FALSE
    ELSE UNCHANGED <<sink, playback_start, accumulated_time, is_paused, outbox,
                     unpaused, alt>>

DoStop ==
    /\ pc = "cmd" /\ cur.kind = "Stop"
    /\ stop
    /\ pc' = "done"
    /\ UNCHANGED <<ui, probe, hist, seen, vCaller, vEvq, cur, volume, was_playing, cache, now, vLocals,
                   handled, last_kind, peak_sinks, vNetH>>

\* pause that drops the time played since the start marker
DoPause_NoAccumulate ==
    /\ pc = "cmd" /\ cur.kind = "Pause"
    /\ IF IsSome(sink)
       THEN /\ sink' = Some([Unwrap(sink) EXCEPT !.paused = TRUE])
            /\ accumulated_time' = accumulated_time
            /\ playback_start' = None
            /\ is_paused' = TRUE
            /\ outbox' = <<Paused>>
            /\ alt' = (alt /\ ~is_paused)
       ELSE UNCHANGED <<sink, accumulated_time, playback_start, is_paused, outbox, alt>>
    /\ pc' = "done"
    /\ UNCHANGED <<ui, probe, hist, seen, vCaller, vEvq, cur, volume, was_playing, cache, now, vLocals,
                   handled, last_kind, unpaused, peak_sinks, vNetH>>

DoPause ==
    /\ pc = "cmd" /\ cur.kind = "Pause"
    /\ IF IsSome(sink)
       THEN /\ sink' = Some([Unwrap(sink) EXCEPT !.paused = TRUE])
            /\ accumulated_time' =
                 IF IsSome(playback_start)
                 THEN accumulated_time + (now - Unwrap(playback_start))
                 ELSE accumulated_time
            /\ playback_start' = None
            /\ is_paused' = TRUE
            /\ outbox' = <<Paused>>
            /\ alt' = (alt /\ ~is_paused)
       ELSE UNCHANGED <<sink, accumulated_time, playback_start, is_paused, outbox, alt>>
    /\ pc' = "done"
    /\ UNCHANGED <<ui, probe, hist, seen, vCaller, vEvq, cur, volume, was_playing, cache, now, vLocals,
                   handled, last_kind, unpaused, peak_sinks, vNetH>>

\* a resume that announces Playing whether or not a sink is active
DoResume_Always ==
    /\ pc = "cmd" /\ cur.kind = "Resume"
    /\ sink' = IF IsSome(sink) THEN Some([Unwrap(sink) EXCEPT !.paused = FALSE]) ELSE sink
    /\ playback_start' = IF IsSome(sink) THEN Some(now) ELSE playback_start
    /\ is_paused' = FALSE
    /\ outbox' = <<Playing>>
    /\ alt' = IF IsSome(sink) THEN (alt /\ is_paused) ELSE alt
    /\ pc' = "done"
    /\ UNCHANGED <<ui, probe, hist, seen, vCaller, vEvq, cur, volume, accumulated_time, was_playing, cache, now,
                   vLocals, handled, last_kind, unpaused, peak_sinks, vNetH>>

DoResume ==
    /\ pc = "cmd" /\ cur.kind = "Resume"
    /\ IF IsSome(sink)
       THEN /\ sink' = Some([Unwrap(sink) EXCEPT !.paused = FALSE])
            /\ playback_start' = Some(now)
            /\ is_paused' = FALSE
            /\ outbox' = <<Playing>>
            /\ alt' = (alt /\ is_paused)
       ELSE UNCHANGED <<sink, playback_start, is_paused, outbox, alt>>
    /\ pc' = "done"
    /\ UNCHANGED <<ui, probe, hist, seen, vCaller, vEvq, cur, volume, accumulated_time, was_playing, cache, now,
                   vLocals, handled, last_kind, unpaused, peak_sinks, vNetH>>

\* a set_volume that also restarts the elapsed-time marker of the active sink
DoSetVolume_Restart ==
    /\ pc = "cmd" /\ cur.kind = "SetVolume"
    /\ volume' = clamp(cur.vol, F(0), F(10))
    /\ sink' = IF IsSome(sink)
               THEN Some([Unwrap(sink) EXCEPT !.volume = clamp(cur.vol, F(0), F(10))])
               ELSE sink
    /\ playback_start' = IF IsSome(sink) THEN Some(now) ELSE playback_start
    /\ pc' = "done"
    /\ UNCHANGED <<ui, probe, hist, seen, vCaller, vEvq, outbox, cur, accumulated_time, is_paused,
                   was_playing, cache, now, vLocals, handled, last_kind, vSinkH, vNetH>>

DoSetVolume ==
    /\ pc = "cmd" /\ cur.kind = "SetVolume"
    /\ volume' = clamp(cur.vol, F(0), F(10))
    /\ sink' = IF IsSome(sink)
               THEN Some([Unwrap(sink) EXCEPT !.volume = clamp(cur.vol, F(0), F(10))])
               ELSE sink
    /\ pc' = "done"
    /\ UNCHANGED <<ui, probe, hist, seen, vCaller, vEvq, outbox, cur, playback_start, accumulated_time, is_paused,
                   was_playing, cache, now, vLocals, handled, last_kind, vSinkH, vNetH>>

(***************************** Play ***************************************)
Max(a, b) == IF a > b THEN a ELSE b

\* a sink installed at full volume, whatever the volume of the engine
InstallSink_DefaultVolume ==
    /\ peak_sinks' = Max(peak_sinks, (IF IsSome(sink) THEN 1 ELSE 0) + 1)
    /\ sink' = Some(NewSink(F(10)))
    /\ playback_start' = Some(now)
    /\ accumulated_time' = 0
    /\ is_paused' = FALSE
    /\ unpaused' = 0 /\ alt' = TRUE

\* Sink::try_new succeeded: the statements up to the send of Playing
InstallSink ==
    /\ peak_sinks' = Max(peak_sinks, (IF IsSome(sink) THEN 1 ELSE 0) + 1)
    /\ sink' = Some(NewSink(volume))
    /\ playback_start' = Some(now)
    /\ accumulated_time' = 0
    /\ is_paused' = FALSE
    /\ unpaused' = 0 /\ alt' = TRUE

\* play_url without the call of stop
PlayUrl_NoStop ==
    /\ pc = "cmd" /\ cur.kind = "Play"
    /\ pc' = "play_after_stop"
    /\ UNCHANGED <<ui, probe, hist, seen, vCaller, vEvq, outbox, cur, vEng, was_playing, cache, now, vLocals,
                   handled, last_kind, vSinkH, vNetH>>

\* play_url: self.stop().await
PlayUrl_Stop ==
    /\ pc = "cmd" /\ cur.kind = "Play"
    /\ stop
    /\ pc' = "play_after_stop"
    /\ UNCHANGED <<ui, probe, hist, seen, vCaller, vEvq, cur, volume, was_playing, cache, now, vLocals,
                   handled, last_kind, peak_sinks, vNetH>>

\* a lookup that deletes an entry it could not read and reports the failure
PlayUrl_CacheCheck_DropUnreadable ==
    /\ pc = "play_after_stop" /\ outbox = <<>>
    /\ \/ /\ IsSome(cur.track_id) /\ has_cached(cache, Unwrap(cur.track_id))
          /\ buf' = Unwrap(read_cached(cache, Unwrap(cur.track_id), TRUE))
          /\ from_cache' = TRUE
          /\ pc' = "pfd_buffering"
          /\ lookup' = "hit"
          /\ outbox' = <<Buffering(TRUE)>>
          /\ cache' = cache
       \/ /\ IsSome(cur.track_id) /\ has_cached(cache, Unwrap(cur.track_id))
          /\ UNCHANGED <<buf, from_cache>>
          /\ pc' = "play_buffering"
          /\ lookup' = "unreadable"
          /\ outbox' = <<Error("Cache read failed"), Buffering(TRUE)>>
          /\ cache' = remove_cached(cache, Unwrap(cur.track_id))
       \/ /\ ~(IsSome(cur.track_id) /\ has_cached(cache, Unwrap(cur.track_id)))
          /\ UNCHANGED <<buf, from_cache>>
          /\ pc' = "play_buffering"
          /\ lookup' = "miss"
          /\ outbox' = <<Buffering(TRUE)>>
          /\ cache' = cache
    /\ UNCHANGED <<ui, probe, hist, seen, vCaller, vEvq, cur, vEng, was_playing, now, playlist, seg_i,
                   fetch_url, handled, last_kind, vSinkH, resolver_calls, fetches,
                   decoded, decision, fb_protected, bad_status>>

\* play_url: the slice of the URL for the log panics; the panic hook runs on the
\* worker thread, inside the runtime, and either gets its Error into the channel or
\* fails in blocking_send; the thread then unwinds and the engine is dropped
PlayUrl_Panic ==
    /\ pc = "play_after_stop" /\ outbox = <<>>
    /\ log_prefix_panics(cur.stream_url)
    /\ pc' = "panicked"
    /\ outbox' \in {<<Error("Audio thread panic")>>, <<>>}
    /\ UNCHANGED <<ui, probe, hist, seen, vCaller, vEvq, cur, vEng, was_playing, cache, now, vLocals,
                   handled, last_kind, vSinkH, vNetH>>

\* play_url: the cache lookup, up to the send of Buffering(true)
\* (in play_from_data on a hit, in play_url otherwise)
PlayUrl_CacheCheck ==
    /\ pc = "play_after_stop" /\ outbox = <<>>
    /\ ~log_prefix_panics(cur.stream_url)
    /\ outbox' = <<Buffering(TRUE)>>
    /\ \/ /\ IsSome(cur.track_id) /\ has_cached(cache, Unwrap(cur.track_id))
          /\ \* read_cached returned Some(data)
             buf' = Unwrap(read_cached(cache, Unwrap(cur.track_id), TRUE))
          /\ from_cache' = TRUE
          /\ pc' = "pfd_buffering"
          /\ lookup' = "hit"
       \/ /\ IsSome(cur.track_id) /\ has_cached(cache, Unwrap(cur.track_id))
          /\ \* read_cached returned None
             UNCHANGED <<buf, from_cache>>
          /\ pc' = "play_buffering"
          /\ lookup' = "unreadable"
       \/ /\ ~(IsSome(cur.track_id) /\ has_cached(cache, Unwrap(cur.track_id)))
          /\ UNCHANGED <<buf, from_cache>>
          /\ pc' = "play_buffering"
          /\ lookup' = "miss"
    /\ UNCHANGED <<ui, probe, hist, seen, vCaller, vEvq, cur, vEng, was_playing, cache, now, playlist, seg_i,
                   fetch_url, handled, last_kind, vSinkH, resolver_calls, fetches,
                   decoded, decision, fb_protected, bad_status>>

\* play_url: HLS or progressive, up to the first network await
PlayUrl_Branch ==
    /\ pc = "play_buffering" /\ outbox = <<>>
    /\ IF is_hls_url(cur.stream_url)
       THEN pc' = "hls_fetch_playlist" /\ outbox' = outbox /\ fetch_url' = cur.stream_url
       ELSE IF ~url_parses(cur.stream_url)
       THEN pc' = "done" /\ outbox' = <<Error("Invalid URL")>> /\ fetch_url' = fetch_url
       ELSE pc' = "prog_open" /\ outbox' = outbox /\ fetch_url' = fetch_url
    /\ UNCHANGED <<ui, probe, hist, seen, vCaller, vEvq, cur, vEng, was_playing, cache, now, playlist, seg_i, buf,
                   from_cache, handled, last_kind, vSinkH, vNetH>>

\* StreamDownload::new_http(url, ..).await returned
PlayUrl_StreamOpened ==
    /\ pc = "prog_open"
    /\ \E resp \in Answers(seen.b, cur.stream_url, ByteResponses(ProgTok)) :
         /\ bad_status' = (bad_status \/ NonSuccess(resp))
         /\ seen' = NoteB(seen, cur.stream_url, resp)
         /\ IF resp.err \/ ~Is2xx(resp.status)
            THEN /\ outbox' = <<Error("Failed to stream"), Buffering(FALSE)>>
                 /\ pc' = "done"
                 /\ buf' = buf
            ELSE /\ outbox' = <<Buffering(FALSE)>>
                 /\ pc' = "prog_decode"
                 /\ buf' = resp.body
    /\ fetches' = fetches + 1
    /\ UNCHANGED <<ui, probe, hist, vCaller, vEvq, cur, vEng, was_playing, cache, now, playlist, seg_i,
                   from_cache, fetch_url, handled, last_kind, vSinkH, resolver_calls,
                   decoded, decision, fb_protected, lookup>>

\* play_url: Decoder::new(stream) and Sink::try_new
PlayUrl_Decode ==
    /\ pc = "prog_decode" /\ outbox = <<>>
    /\ decoded' = Append(decoded, buf)
    /\ pc' = "done"
    /\ \/ /\ outbox' = <<Error("Failed to decode")>>
          /\ UNCHANGED <<vEng, vSinkH>>
       \/ /\ buf # <<>>
          /\ outbox' = <<Error("Failed to create sink")>>
          /\ UNCHANGED <<vEng, vSinkH>>
       \/ /\ buf # <<>>
          /\ InstallSink
          /\ outbox' = <<Playing>>
          /\ volume' = volume
    /\ UNCHANGED <<ui, probe, hist, seen, vCaller, vEvq, cur, was_playing, cache, now, vLocals,
                   handled, last_kind, resolver_calls, fetches, decision, fb_protected,
                   lookup, bad_status>>

\* play_from_data: Decoder::new(cursor)
PlayFromData_Decode ==
    /\ pc = "pfd_buffering" /\ outbox = <<>>
    /\ decoded' = Append(decoded, buf)
    /\ \/ /\ outbox' = <<Error("Failed to decode cached audio"), Buffering(FALSE)>>
          /\ pc' = "pfd_done"
       \/ /\ buf # <<>>
          /\ outbox' = <<Buffering(FALSE)>>
          /\ pc' = "pfd_sink"
    /\ UNCHANGED <<ui, probe, hist, seen, vCaller, vEvq, cur, vEng, was_playing, cache, now, vLocals,
                   handled, last_kind, vSinkH, resolver_calls, fetches, decision,
                   fb_protected, lookup, bad_status>>

\* a sink creation whose failure sends no event
PlayFromData_Sink_SilentFailure ==
    /\ pc = "pfd_sink" /\ outbox = <<>>
    /\ pc' = "pfd_done"
    /\ \/ /\ InstallSink
          /\ outbox' = <<Playing>>
          /\ volume' = volume
       \/ /\ outbox' = <<>>
          /\ UNCHANGED <<vEng, vSinkH>>
    /\ UNCHANGED <<ui, probe, hist, seen, vCaller, vEvq, cur, was_playing, cache, now, vLocals,
                   handled, last_kind, vNetH>>

\* play_from_data: Sink::try_new
PlayFromData_Sink ==
    /\ pc = "pfd_sink" /\ outbox = <<>>
    /\ pc' = "pfd_done"
    /\ \/ /\ InstallSink
          /\ outbox' = <<Playing>>
          /\ volume' = volume
       \/ /\ outbox' = <<Error("Failed to create sink")>>
          /\ UNCHANGED <<vEng, vSinkH>>
    /\ UNCHANGED <<ui, probe, hist, seen, vCaller, vEvq, cur, was_playing, cache, now, vLocals,
                   handled, last_kind, vNetH>>

\* the return of play_from_data without remove_cached
PlayFromData_Return_KeepFile ==
    /\ pc = "pfd_done" /\ outbox = <<>>
    /\ pc' = "done"
    /\ UNCHANGED <<ui, probe, hist, seen, vCaller, vEvq, outbox, cur, vEng, was_playing, cache, now, vLocals,
                   handled, last_kind, vSinkH, vNetH>>

\* play_from_data has returned: remove_cached on the cache branch of play_url
PlayFromData_Return ==
    /\ pc = "pfd_done" /\ outbox = <<>>
    /\ cache' = IF from_cache THEN remove_cached(cache, Unwrap(cur.track_id)) ELSE cache
    /\ pc' = "done"
    /\ UNCHANGED <<ui, probe, hist, seen, vCaller, vEvq, outbox, cur, vEng, was_playing, now, vLocals,
                   handled, last_kind, vSinkH, vNetH>>

(***************************** HLS download *******************************)
\* requests to a URL that does not parse fail before anything is sent
HttpGet(url, responses, failure) == IF url_parses(url) THEN responses ELSE {failure}

\* a preload that announces completion without writing the file
PreloadStore_NoWrite(data) ==
    /\ pc' = "done"
    /\ buf' = IF IsSome(data) THEN Unwrap(data) ELSE <<>>
    /\ cache' = cache
    /\ outbox' = IF IsSome(data) /\ Unwrap(data) # <<>>
                 THEN <<PreloadComplete(cur.track_id)>>
                 ELSE outbox

\* preload: the match on audio_data (write_cached and PreloadComplete)
PreloadStore(data) ==
    /\ pc' = "done"
    /\ buf' = IF IsSome(data) THEN Unwrap(data) ELSE <<>>
    /\ IF IsSome(data) /\ Unwrap(data) # <<>>
       THEN \/ /\ cache' = write_cached(cache, cur.track_id, Unwrap(data))
               /\ outbox' = <<PreloadComplete(cur.track_id)>>
            \/ \* write_cached failed before the file was created
               /\ cache' = cache
               /\ outbox' = outbox
            \/ \* write_cached failed after the file was created
               /\ cache' = write_cached(cache, cur.track_id, <<>>)
               /\ outbox' = outbox
       ELSE cache' = cache /\ outbox' = outbox

\* stream_hls_playlist: what follows download_hls_segments
StreamHlsPlaylist(data) ==
    /\ cache' = cache
    /\ IF IsSome(data)
       THEN /\ outbox' = <<Buffering(FALSE), Buffering(TRUE)>>
            /\ buf' = Unwrap(data)
            /\ pc' = "pfd_buffering"
       ELSE /\ outbox' = <<Error("Failed to download HLS segments"), Buffering(FALSE)>>
            /\ buf' = buf
            /\ pc' = "done"

\* download_hls_segments has returned data to its caller
SegmentsDone(data) ==
    IF cur.kind = "Play" THEN StreamHlsPlaylist(data) ELSE PreloadStore(data)

\* download_hls_segments up to its first await
StartSegments(pl) ==
    IF pl.segments = <<>>
    THEN SegmentsDone(None) /\ UNCHANGED <<playlist, seg_i>>
    ELSE /\ playlist' = [pl EXCEPT !.encryption = None]
         /\ buf' = <<>>
         /\ outbox' = outbox /\ cache' = cache
         /\ IF IsSome(pl.init_segment_url)
            THEN pc' = "seg_init" /\ seg_i' = 0
            ELSE pc' = "seg_fetch" /\ seg_i' = 1

\* download_hls_segments: the init segment has been fetched
Download_Init ==
    /\ pc = "seg_init"
    /\ LET url == Unwrap(playlist.init_segment_url) IN
       \E resp \in Answers(seen.b, url, HttpGet(url, ByteResponses(PayloadOf(url)), HttpErr)) :
         LET r == download_segment(resp) IN
         /\ seen' = NoteB(seen, url, resp)
         /\ hist' = [hist EXCEPT !.clean = @ /\ resp = HttpResp(200, <<PayloadOf(url)>>)]
         /\ bad_status' = (bad_status \/ NonSuccess(resp))
         /\ IF r.ok
            THEN /\ buf' = buf \o r.val[1]
                 /\ pc' = "seg_fetch" /\ seg_i' = 1
                 /\ outbox' = outbox /\ cache' = cache
            ELSE SegmentsDone(None) /\ seg_i' = seg_i
    /\ fetches' = fetches + 1
    /\ decision' = None
    /\ UNCHANGED <<ui, probe, vCaller, vEvq, cur, vEng, was_playing, now, playlist, from_cache,
                   fetch_url, handled, last_kind, vSinkH, resolver_calls, decoded,
                   fb_protected, lookup>>

\* a download that puts every segment in front of those it already has
Download_Segment_Prepend ==
    /\ pc = "seg_fetch"
    /\ LET url == playlist.segments[seg_i].uri IN
       \E resp \in Answers(seen.b, url, HttpGet(url, ByteResponses(PayloadOf(url)), HttpErr)) :
         LET r == download_segment(resp) IN
         /\ seen' = NoteB(seen, url, resp)
         /\ hist' = [hist EXCEPT !.clean = @ /\ resp = HttpResp(200, <<PayloadOf(url)>>)]
         /\ bad_status' = (bad_status \/ NonSuccess(resp))
         /\ IF ~r.ok
            THEN SegmentsDone(None) /\ seg_i' = seg_i
            ELSE IF seg_i = Len(playlist.segments)
            THEN SegmentsDone(Some(r.val[1] \o buf)) /\ seg_i' = seg_i
            ELSE /\ buf' = r.val[1] \o buf
                 /\ seg_i' = seg_i + 1
                 /\ pc' = pc /\ outbox' = outbox /\ cache' = cache
    /\ fetches' = fetches + 1
    /\ decision' = None
    /\ UNCHANGED <<ui, probe, vCaller, vEvq, cur, vEng, was_playing, now, playlist, from_cache,
                   fetch_url, handled, last_kind, vSinkH, resolver_calls, decoded,
                   fb_protected, lookup>>

\* download_hls_segments: media segment seg_i has been fetched
Download_Segment ==
    /\ pc = "seg_fetch"
    /\ LET url == playlist.segments[seg_i].uri IN
       \E resp \in Answers(seen.b, url, HttpGet(url, ByteResponses(PayloadOf(url)), HttpErr)) :
         LET r == download_segment(resp) IN
         /\ seen' = NoteB(seen, url, resp)
         /\ hist' = [hist EXCEPT !.clean = @ /\ resp = HttpResp(200, <<PayloadOf(url)>>)]
         /\ bad_status' = (bad_status \/ NonSuccess(resp))
         /\ IF ~r.ok
            THEN SegmentsDone(None) /\ seg_i' = seg_i
            ELSE IF seg_i = Len(playlist.segments)
            THEN SegmentsDone(Some(buf \o r.val[1])) /\ seg_i' = seg_i
            ELSE /\ buf' = buf \o r.val[1]
                 /\ seg_i' = seg_i + 1
                 /\ pc' = pc /\ outbox' = outbox /\ cache' = cache
    /\ fetches' = fetches + 1
    /\ decision' = None
    /\ UNCHANGED <<ui, probe, vCaller, vEvq, cur, vEng, was_playing, now, playlist, from_cache,
                   fetch_url, handled, last_kind, vSinkH, resolver_calls, decoded,
                   fb_protected, lookup>>

(***************************** Play: HLS **********************************)
\* an exit that reports the failure of the resolver as an Error
GiveUpDrm_AsError(enc) ==
    /\ outbox' = <<Error("yt-dlp failed"), Buffering(FALSE)>>
    /\ pc' = "done"
    /\ UNCHANGED <<buf, cache, playlist, seg_i>>

\* play_hls: the DrmProtected exit
GiveUpDrm(enc) ==
    /\ outbox' = <<DrmProtected(drm_type_of(enc), track_url_of(cur.permalink_url)),
                   Buffering(FALSE)>>
    /\ pc' = "done"
    /\ UNCHANGED <<buf, cache, playlist, seg_i>>

\* play_hls: fetch_playlist(url).await returned
PlayHls_Fetched(from_ytdlp) ==
    /\ pc = "hls_fetch_playlist"
    /\ \E resp \in Answers(seen.m, fetch_url,
                        HttpGet(fetch_url, ManifestResponses, ManifestErr)) :
         LET r == fetch_playlist(resp, fetch_url) IN
         /\ bad_status' = (bad_status \/ NonSuccess(resp))
         /\ hist' = [hist EXCEPT !.master = @ \/ (~resp.err /\ resp.body.kind = "master")]
         /\ IF ~r.ok
            THEN /\ outbox' = <<Error("Failed to parse HLS"), Buffering(FALSE)>>
                 /\ pc' = "done"
                 /\ seen' = NoteM(seen, fetch_url, resp)
                 /\ UNCHANGED <<buf, cache, playlist, seg_i, fetch_url, resolver_calls,
                                decision>>
            ELSE LET pl == r.val[1] IN
                 IF IsSome(pl.encryption) /\ play_needs_fallback(Unwrap(pl.encryption))
                 THEN /\ decision' = Some([enc |-> pl.encryption, fallback |-> TRUE])
                      /\ IF from_ytdlp
                         THEN /\ GiveUpDrm(Unwrap(pl.encryption))
                              /\ seen' = NoteM(seen, fetch_url, resp)
                              /\ UNCHANGED <<fetch_url, resolver_calls>>
                         ELSE IF IsSome(cur.permalink_url) /\ Unwrap(cur.permalink_url) # <<>>
                         THEN \E run \in Answers(seen.r, Unwrap(cur.permalink_url), ResolverRuns) :
                                LET u == extract_stream_url(run) IN
                                /\ resolver_calls' = resolver_calls + 1
                                /\ seen' = NoteR(NoteM(seen, fetch_url, resp),
                                                 Unwrap(cur.permalink_url), run)
                                /\ IF u.ok
                                   THEN /\ fetch_url' = u.val[1]
                                        /\ pc' = "hls_fetch_fallback"
                                        /\ UNCHANGED <<outbox, buf, cache, playlist, seg_i>>
                                   ELSE /\ GiveUpDrm(Unwrap(pl.encryption))
                                        /\ fetch_url' = fetch_url
                         ELSE /\ GiveUpDrm(Unwrap(pl.encryption))
                              /\ seen' = NoteM(seen, fetch_url, resp)
                              /\ UNCHANGED <<fetch_url, resolver_calls>>
                 ELSE /\ decision' = Some([enc |-> pl.encryption, fallback |-> FALSE])
                      /\ StartSegments(pl)
                      /\ seen' = NoteM(seen, fetch_url, resp)
                      /\ UNCHANGED <<fetch_url, resolver_calls>>
    /\ fetches' = fetches + 1
    /\ UNCHANGED <<ui, probe, vCaller, vEvq, cur, vEng, was_playing, now, from_cache,
                   handled, last_kind, vSinkH, decoded, fb_protected, lookup>>

\* play_hls_stream: fetch_playlist(url).await returned
PlayHlsStream_Fetched ==
    /\ pc = "hls_fetch_fallback"
    /\ \E resp \in Answers(seen.m, fetch_url,
                        HttpGet(fetch_url, ManifestResponses, ManifestErr)) :
         LET r == fetch_playlist(resp, fetch_url) IN
         /\ bad_status' = (bad_status \/ NonSuccess(resp))
         /\ hist' = [hist EXCEPT !.master = @ \/ (~resp.err /\ resp.body.kind = "master")]
         /\ seen' = NoteM(seen, fetch_url, resp)
         /\ fb_protected' = (r.ok /\ IsSome(r.val[1].encryption)
                               /\ play_needs_fallback(Unwrap(r.val[1].encryption)))
         /\ IF ~r.ok
            THEN /\ outbox' = <<Error("Failed to parse HLS"), Buffering(FALSE)>>
                 /\ pc' = "done"
                 /\ UNCHANGED <<buf, cache, playlist, seg_i>>
            ELSE StartSegments(r.val[1])
    /\ fetches' = fetches + 1
    /\ decision' = None
    /\ UNCHANGED <<ui, probe, vCaller, vEvq, cur, vEng, was_playing, now, from_cache, fetch_url,
                   handled, last_kind, vSinkH, resolver_calls, decoded, lookup>>

(***************************** Preload ************************************)
\* a preload that does not look into the cache first
Preload_Start_NoCheck ==
    /\ pc = "cmd" /\ cur.kind = "Preload"
    /\ IF FALSE
       THEN /\ outbox' = <<PreloadComplete(cur.track_id)>>
            /\ pc' = "done"
            /\ fetch_url' = fetch_url
            /\ lookup' = "cached"
       ELSE /\ outbox' = outbox
            /\ fetch_url' = cur.stream_url
            /\ pc' = IF is_hls_url(cur.stream_url) THEN "pre_fetch_playlist" ELSE "pre_prog"
            /\ lookup' = "absent"
    /\ UNCHANGED <<ui, probe, hist, seen, vCaller, vEvq, cur, vEng, was_playing, cache, now, playlist,
                   seg_i, buf, from_cache, handled, last_kind, vSinkH, resolver_calls,
                   fetches, decoded, decision, fb_protected, bad_status>>

\* preload: the slice of the URL for the log panics (see PlayUrl_Panic); the sink is
\* dropped with the engine
Preload_Panic ==
    /\ pc = "cmd" /\ cur.kind = "Preload"
    /\ ~has_cached(cache, cur.track_id) /\ log_prefix_panics(cur.stream_url)
    /\ pc' = "panicked"
    /\ outbox' \in {<<Error("Audio thread panic")>>, <<>>}
    /\ sink' = None
    /\ UNCHANGED <<ui, probe, hist, seen, vCaller, vEvq, cur, volume, playback_start, accumulated_time,
                   is_paused, was_playing, cache, now, vLocals, handled, last_kind,
                   vSinkH, vNetH>>

\* preload up to its first await
\* a preload that stops the current playback before it downloads
Preload_Start_Stops ==
    /\ pc = "cmd" /\ cur.kind = "Preload"
    /\ has_cached(cache, cur.track_id) \/ ~log_prefix_panics(cur.stream_url)
    /\ IF has_cached(cache, cur.track_id)
       THEN /\ outbox' = <<PreloadComplete(cur.track_id)>>
            /\ pc' = "done"
            /\ fetch_url' = fetch_url
            /\ lookup' = "cached"
            /\ UNCHANGED <<sink, playback_start, accumulated_time, is_paused, unpaused, alt>>
       ELSE /\ stop
            /\ fetch_url' = cur.stream_url
            /\ pc' = IF is_hls_url(cur.stream_url) THEN "pre_fetch_playlist" ELSE "pre_prog"
            /\ lookup' = "absent"
    /\ UNCHANGED <<ui, probe, hist, seen, vCaller, vEvq, cur, volume, was_playing, cache, now,
                   playlist, seg_i, buf, from_cache, handled, last_kind, peak_sinks,
                   resolver_calls, fetches, decoded, decision, fb_protected, bad_status>>

Preload_Start ==
    /\ pc = "cmd" /\ cur.kind = "Preload"
    /\ has_cached(cache, cur.track_id) \/ ~log_prefix_panics(cur.stream_url)
    /\ IF has_cached(cache, cur.track_id)
       THEN /\ outbox' = <<PreloadComplete(cur.track_id)>>
            /\ pc' = "done"
            /\ fetch_url' = fetch_url
            /\ lookup' = "cached"
       ELSE /\ outbox' = outbox
            /\ fetch_url' = cur.stream_url
            /\ pc' = IF is_hls_url(cur.stream_url) THEN "pre_fetch_playlist" ELSE "pre_prog"
            /\ lookup' = "absent"
    /\ UNCHANGED <<ui, probe, hist, seen, vCaller, vEvq, cur, vEng, was_playing, cache, now, playlist,
                   seg_i, buf, from_cache, handled, last_kind, vSinkH, resolver_calls,
                   fetches, decoded, decision, fb_protected, bad_status>>

\* download_hls_data: fetch_playlist(url).await returned
DownloadHlsData_Fetched ==
    /\ pc = "pre_fetch_playlist"
    /\ \E resp \in Answers(seen.m, fetch_url,
                        HttpGet(fetch_url, ManifestResponses, ManifestErr)) :
         LET r == fetch_playlist(resp, fetch_url) IN
         /\ bad_status' = (bad_status \/ NonSuccess(resp))
         /\ hist' = [hist EXCEPT !.master = @ \/ (~resp.err /\ resp.body.kind = "master")]
         /\ IF ~r.ok
            THEN /\ PreloadStore(None)
                 /\ seen' = NoteM(seen, fetch_url, resp)
                 /\ UNCHANGED <<playlist, seg_i, fetch_url, resolver_calls, decision>>
            ELSE LET pl == r.val[1] IN
                 IF IsSome(pl.encryption) /\ preload_needs_fallback(Unwrap(pl.encryption))
                 THEN /\ decision' = Some([enc |-> pl.encryption, fallback |-> TRUE])
                      /\ IF IsSome(cur.permalink_url) /\ Unwrap(cur.permalink_url) # <<>>
                         THEN \E run \in Answers(seen.r, Unwrap(cur.permalink_url), ResolverRuns) :
                                LET u == extract_stream_url(run) IN
                                /\ resolver_calls' = resolver_calls + 1
                                /\ seen' = NoteR(NoteM(seen, fetch_url, resp),
                                                 Unwrap(cur.permalink_url), run)
                                /\ IF u.ok
                                   THEN /\ fetch_url' = u.val[1]
                                        /\ pc' = "pre_fetch_fallback"
                                        /\ UNCHANGED <<outbox, buf, cache, playlist, seg_i>>
                                   ELSE /\ PreloadStore(None)
                                        /\ UNCHANGED <<playlist, seg_i, fetch_url>>
                         ELSE /\ PreloadStore(None)
                              /\ seen' = NoteM(seen, fetch_url, resp)
                              /\ UNCHANGED <<playlist, seg_i, fetch_url, resolver_calls>>
                 ELSE /\ decision' = Some([enc |-> pl.encryption, fallback |-> FALSE])
                      /\ StartSegments(pl)
                      /\ seen' = NoteM(seen, fetch_url, resp)
                      /\ UNCHANGED <<fetch_url, resolver_calls>>
    /\ fetches' = fetches + 1
    /\ UNCHANGED <<ui, probe, vCaller, vEvq, cur, vEng, was_playing, now, from_cache,
                   handled, last_kind, vSinkH, decoded, fb_protected, lookup>>

\* download_hls_data: fetch_playlist(ytdlp_url).await returned
DownloadHlsData_FallbackFetched ==
    /\ pc = "pre_fetch_fallback"
    /\ \E resp \in Answers(seen.m, fetch_url,
                        HttpGet(fetch_url, ManifestResponses, ManifestErr)) :
         LET r == fetch_playlist(resp, fetch_url) IN
         /\ bad_status' = (bad_status \/ NonSuccess(resp))
         /\ hist' = [hist EXCEPT !.master = @ \/ (~resp.err /\ resp.body.kind = "master")]
         /\ seen' = NoteM(seen, fetch_url, resp)
         /\ fb_protected' = (r.ok /\ IsSome(r.val[1].encryption)
                               /\ play_needs_fallback(Unwrap(r.val[1].encryption)))
         /\ IF ~r.ok
            THEN PreloadStore(None) /\ UNCHANGED <<playlist, seg_i>>
            ELSE StartSegments(r.val[1])
    /\ fetches' = fetches + 1
    /\ decision' = None
    /\ UNCHANGED <<ui, probe, vCaller, vEvq, cur, vEng, was_playing, now, from_cache, fetch_url,
                   handled, last_kind, vSinkH, resolver_calls, decoded, lookup>>

\* download_progressive_data: send and bytes have returned
DownloadProgressive_Done ==
    /\ pc = "pre_prog"
    /\ \E resp \in Answers(seen.b, fetch_url,
                        HttpGet(fetch_url, ByteResponses(ProgTok), HttpErr)) :
         /\ bad_status' = (bad_status \/ NonSuccess(resp))
         /\ seen' = NoteB(seen, fetch_url, resp)
         /\ PreloadStore(IF resp.err THEN None ELSE Some(resp.body))
    /\ fetches' = fetches + 1
    /\ UNCHANGED <<ui, probe, hist, vCaller, vEvq, cur, vEng, was_playing, now, playlist, seg_i,
                   from_cache, fetch_url, handled, last_kind, vSinkH, resolver_calls,
                   decoded, decision, fb_protected, lookup>>

(***************************** the cache module on its own ****************)
\* track ids and file contents for calls of the cache module
CacheIds == {1, 2}
CacheData == {<<>>, <<ProgTok>>, <<InitTok, SegTok(1)>>}

InitCache ==
    InitWith(<<>>, CacheIds, {None} \cup {Some(d) : d \in CacheData}, FALSE)

\* write_cached(id, data): Ok, or Err with the file absent or created and incomplete
Cache_Write ==
    \E id \in CacheIds, data \in CacheData, res \in {"ok", "not_created", "incomplete"} :
        /\ cache' = IF res = "ok" THEN write_cached(cache, id, data)
                    ELSE IF res = "incomplete" THEN write_cached(cache, id, <<>>)
                    ELSE cache
        /\ probe' = [op |-> "write", id |-> id, data |-> Some(data), ok |-> res = "ok",
                     found |-> FALSE]
        /\ UNCHANGED <<ui, hist, seen, vCaller, vEvq, outbox, pc, cur, vEng, was_playing, now,
                       vLocals, handled, last_kind, vSinkH, vNetH>>

\* remove_cached(id)
Cache_Remove ==
    \E id \in CacheIds :
        /\ cache' = remove_cached(cache, id)
        /\ probe' = [op |-> "remove", id |-> id, data |-> None, ok |-> TRUE,
                     found |-> has_cached(cache, id)]
        /\ UNCHANGED <<ui, hist, seen, vCaller, vEvq, outbox, pc, cur, vEng, was_playing, now,
                       vLocals, handled, last_kind, vSinkH, vNetH>>

\* read_cached(id), with a read that works or fails
Cache_Read ==
    \E id \in CacheIds, io_ok \in BOOLEAN :
        /\ probe' = [op |-> "read", id |-> id, data |-> read_cached(cache, id, io_ok),
                     ok |-> io_ok, found |-> FALSE]
        /\ UNCHANGED <<ui, hist, seen, vCaller, vEvq, outbox, pc, cur, vEng, was_playing, cache,
                       now, vLocals, handled, last_kind, vSinkH, vNetH>>

\* has_cached(id)
Cache_Exists ==
    \E id \in CacheIds :
        /\ probe' = [op |-> "exists", id |-> id, data |-> None, ok |-> TRUE,
                     found |-> has_cached(cache, id)]
        /\ UNCHANGED <<ui, hist, seen, vCaller, vEvq, outbox, pc, cur, vEng, was_playing, cache,
                       now, vLocals, handled, last_kind, vSinkH, vNetH>>

(***************************** the playlist parser on its own *************)
\* manifest URLs: a file under the root, a file in a directory, and a file
\* whose query string holds a '/'
U_dir   == <<"s", ":", "/", "d", "/", "a", ".", "m", "3", "u", "8">>
U_query == <<"s", ":", "/", "a", ".", "m", "3", "u", "8", "?", "k", "=", "/", "b">>
ParseUrls == {U_hls, U_dir, U_query}

\* URIs of a playlist: relative, rooted, absolute
R_rel  == <<"g">>
R_root == <<"/", "g">>
R_abs  == <<"h", "t", "t", "p", ":", "/", "g">>
ParseUris == {R_rel, R_root, R_abs}

\* EXT-X-BYTERANGE of a segment: absent, a length, a length and an offset
ByteRange(n, o) == [length |-> n, offset |-> o]
ParseRanges == {None, Some(ByteRange(5, None)), Some(ByteRange(5, Some(3)))}
ParseKeys == {None, Some(KeyTag(M_none, None, None)), Some(KeyTag(M_aes128, Some(U_key), None))}
ParseMaps == {None, Some(InitUri), Some(R_abs)}

ParseSegments ==
    [uri : ParseUris, key : ParseKeys, map : ParseMaps, byte_range : ParseRanges]
ParseDocs ==
    { [kind |-> "media", segments |-> s] :
        s \in UNION { [1..n -> ParseSegments] : n \in 0..MaxSegs } }

\* a media playlist and its URL, not yet parsed
InitParse ==
    /\ probe \in [op : {"parse"}, doc : ParseDocs, url : ParseUrls, out : {None}]
    /\ InitEngine(<<>>, {}, {None}, FALSE)

\* parse_media_playlist(&playlist, base_url)
Parse_Apply ==
    /\ probe.op = "parse"
    /\ probe.out = None
    /\ probe' = [probe EXCEPT !.out = Some(parse_media_playlist(probe.doc, probe.url))]
    /\ UNCHANGED <<ui, hist, seen, vCaller, vEvq, outbox, pc, cur, vEng, was_playing, cache,
                   now, vLocals, handled, last_kind, vSinkH, vNetH>>

(***************************** the user interface *************************)
\* tracks of the library, the list of the Likes tab, what get_stream_url
\* returns for a track and the track's permalink_url
UiTracks == {1, 2}
Likes == <<1, 2>>
StreamUrlOf(t) == <<"s", ":", "/", ToString(t)>>
PermalinkOf(t) == Some(<<"p", ":", "/", ToString(t)>>)
UiVolume == F(5)
Tabs == {"Likes", "Search"}
RepeatModes == {"None", "One", "All"}

\* messages handled by update()
MsgAudioReady == [msg |-> "AudioReady"]
MsgPlayTrack(t) == [msg |-> "PlayTrack", track |-> t]
MsgPlayTrackInPlaylist(t, pl, i) ==
    [msg |-> "PlayTrackInPlaylist", track |-> t, playlist |-> pl, index |-> i]
MsgStreamUrlLoaded(r) == [msg |-> "StreamUrlLoaded", result |-> r]
MsgAudioEvent(ev) == [msg |-> "AudioEvent", event |-> ev]
MsgNextTrack == [msg |-> "NextTrack"]

\* playlist.iter().position(|t| t.id == track.id).unwrap_or(0), counted from 0
IndexOf(pl, t) ==
    IF \E i \in 1..Len(pl) : pl[i] = t
    THEN (CHOOSE i \in 1..Len(pl) : pl[i] = t /\ \A j \in 1..(i - 1) : pl[j] # t) - 1
    ELSE 0

\* the application after init(), with the subscription's AudioReady on its way
NewUi(tab, repeat) ==
    [current_tab |-> tab,
     repeat_mode |-> repeat,
     volume |-> UiVolume,
     audio_cmd_tx |-> FALSE,
     current_track |-> None,
     current_playlist |-> <<>>,
     playlist_index |-> 0,
     playback_status |-> "Stopped",
     inbox |-> <<MsgAudioReady>>, \* messages waiting for update()
     todo |-> <<>>,               \* commands the running update() has still to send
     lookups |-> {},              \* get_stream_url calls in flight
     started |-> 0,               \* number of get_stream_url calls so far
     selected |-> 0,              \* number of buttons the user has pressed
     log |-> <<>>]                \* the Play commands sent so far

InitUi ==
    /\ probe = NoProbe
    /\ ui \in {NewUi(tab, repeat) : tab \in Tabs, repeat \in RepeatModes}
    /\ InitWorker(<<>>, TrackIds, {None}, FALSE)

vWorker == <<outbox, pc, cur, vEng, was_playing, cache, now, vLocals, handled, last_kind,
             vSinkH, vNetH, seen, probe, menu>>

\* the user presses the play button of a track
UserPlayTrack ==
    /\ ui.selected < MaxSelections
    /\ \E t \in UiTracks :
         ui' = [ui EXCEPT !.inbox = Append(@, MsgPlayTrack(t)), !.selected = @ + 1]
    /\ UNCHANGED <<vWorker, hist, vCaller, vEvq>>

\* the user presses the next button
UserNextTrack ==
    /\ ui.selected < MaxSelections
    /\ ui' = [ui EXCEPT !.inbox = Append(@, MsgNextTrack), !.selected = @ + 1]
    /\ UNCHANGED <<vWorker, hist, vCaller, vEvq>>

\* Message::AudioEvent(event)
OnAudioEvent(u, ev) ==
    IF ev = Playing THEN [u EXCEPT !.playback_status = "Playing"]
    ELSE IF ev = Paused THEN [u EXCEPT !.playback_status = "Paused"]
    ELSE IF ev = Stopped THEN [u EXCEPT !.playback_status = "Stopped"]
    ELSE IF ev = Buffering(TRUE) THEN [u EXCEPT !.playback_status = "Buffering"]
    ELSE IF ev = Finished THEN [u EXCEPT !.inbox = Append(@, MsgNextTrack)]
    ELSE IF ev[1] \in {"Error", "DrmProtected"} THEN [u EXCEPT !.playback_status = "Stopped"]
    ELSE u

\* an advance that wraps to the first track whatever the repeat mode
OnNextTrack_AlwaysWraps(u) ==
    IF u.current_playlist # <<>>
    THEN LET next_index == (u.playlist_index + 1) % Len(u.current_playlist)
         IN  [u EXCEPT !.inbox = Append(@, MsgPlayTrackInPlaylist(
                            u.current_playlist[next_index + 1], u.current_playlist,
                            next_index))]
    ELSE u

\* Message::NextTrack
OnNextTrack(u) ==
    IF u.current_playlist # <<>>
    THEN LET next_index == (u.playlist_index + 1) % Len(u.current_playlist)
         IN  IF next_index # 0 \/ u.repeat_mode = "All"
             THEN [u EXCEPT !.inbox = Append(@, MsgPlayTrackInPlaylist(
                                u.current_playlist[next_index + 1], u.current_playlist,
                                next_index))]
             ELSE [u EXCEPT !.playback_status = "Stopped"]
    ELSE u

\* Message::StreamUrlLoaded(result)
OnStreamUrlLoaded(u, result) ==
    IF result.ok
    THEN IF u.audio_cmd_tx
         THEN LET permalink_url == IF IsSome(u.current_track)
                                   THEN PermalinkOf(Unwrap(u.current_track))
                                   ELSE None
              IN  [u EXCEPT !.todo = <<SetVolume(u.volume),
                                       Play(None, result.val[1], permalink_url)>>]
         ELSE u
    ELSE [u EXCEPT !.playback_status = "Stopped"]

\* update(message) up to its first blocking_send
UiUpdate ==
    /\ ui.inbox # <<>> /\ ui.todo = <<>>
    /\ LET m == Head(ui.inbox)
           u == [ui EXCEPT !.inbox = Tail(@)]
       IN  ui' =
             IF m.msg = "AudioReady"
             THEN [u EXCEPT !.todo = <<SetVolume(u.volume)>>, !.audio_cmd_tx = TRUE]
             ELSE IF m.msg = "PlayTrack"
             THEN LET pl == IF u.current_tab = "Likes" THEN Likes ELSE <<m.track>>
                  IN  [u EXCEPT !.inbox = Append(@,
                          MsgPlayTrackInPlaylist(m.track, pl, IndexOf(pl, m.track)))]
             ELSE IF m.msg = "PlayTrackInPlaylist"
             THEN [u EXCEPT !.current_track = Some(m.track),
                            !.current_playlist = m.playlist,
                            !.playlist_index = m.index,
                            !.playback_status = "Buffering",
                            !.lookups = @ \cup {[n |-> u.started + 1, track |-> m.track]},
                            !.started = @ + 1]
             ELSE IF m.msg = "StreamUrlLoaded" THEN OnStreamUrlLoaded(u, m.result)
             ELSE IF m.msg = "AudioEvent" THEN OnAudioEvent(u, m.event)
             ELSE OnNextTrack(u)
    /\ UNCHANGED <<vWorker, hist, vCaller, vEvq>>

\* client.get_stream_url(&track).await returns, in any order among the calls in flight
LookupDone ==
    /\ \E l \in ui.lookups :
         \E r \in {Ok(StreamUrlOf(l.track)), Err("api")} :
            ui' = [ui EXCEPT !.lookups = @ \ {l},
                             !.inbox = Append(@, MsgStreamUrlLoaded(r))]
    /\ UNCHANGED <<vWorker, hist, vCaller, vEvq>>

\* tx.blocking_send(command) of the running update(): waits for room, and fails
\* at once when the worker has gone
UiSend ==
    /\ ui.todo # <<>>
    /\ LET c == Head(ui.todo)
       IN  IF pc = "dead"
           THEN /\ ui' = [ui EXCEPT !.todo = Tail(@)]
                /\ UNCHANGED <<cmdq, cmdq_id, sent, hist>>
           ELSE /\ Len(cmdq) < CmdCap
                /\ cmdq' = Append(cmdq, c)
                /\ cmdq_id' = Append(cmdq_id, sent + 1)
                /\ sent' = sent + 1
                /\ hist' = [hist EXCEPT !.late = @ \/ (pc \in NetPcs /\ c.kind = "Play")]
                /\ ui' = [ui EXCEPT !.todo = Tail(@),
                                    !.log = IF c.kind = "Play" THEN Append(@, c) ELSE @]
    /\ UNCHANGED <<vWorker, vEvq>>

\* the subscription forwards the next event to update()
UiConsume ==
    /\ evq # <<>>
    /\ Len(ui.inbox) < InboxCap
    /\ evq' = Tail(evq)
    /\ evq_by' = Tail(evq_by)
    /\ ui' = [ui EXCEPT !.inbox = Append(@, MsgAudioEvent(Head(evq)))]
    /\ UNCHANGED <<vWorker, hist, vCaller, emitted, evt_rx_open>>

\* the track plays to its end, as long as another lookup may follow
UiDrain ==
    /\ ui.started < MaxLookups
    /\ Drain

(***************************** specification ******************************)
\* every command, with the clock standing still
Next ==
    \/ CallerSend
    \/ Consume
    \/ Drain
    \/ SendEvent
    \/ Spawn_Acquire
    \/ Recv
    \/ Finish
    \/ Tick
    \/ TickDone
    \/ DoStop
    \/ DoPause
    \/ DoResume
    \/ DoSetVolume
    \/ PlayUrl_Stop
    \/ PlayUrl_CacheCheck
    \/ PlayUrl_Branch
    \/ PlayUrl_StreamOpened
    \/ PlayUrl_Decode
    \/ PlayFromData_Decode
    \/ PlayFromData_Sink
    \/ PlayFromData_Return
    \/ PlayHls_Fetched(FALSE)
    \/ PlayHlsStream_Fetched
    \/ Download_Init
    \/ Download_Segment
    \/ Preload_Start
    \/ DownloadHlsData_Fetched
    \/ DownloadHlsData_FallbackFetched
    \/ DownloadProgressive_Done

Spec == Init /\ [][Next]_vars

\* the transport controls alone, with time passing: no cache hit, no HLS, no Preload
NextTransport ==
    \/ CallerSend
    \/ Consume
    \/ Advance
    \/ Drain
    \/ SendEvent
    \/ Spawn_Acquire
    \/ Recv
    \/ Finish
    \/ Tick
    \/ TickDone
    \/ DoStop
    \/ DoPause
    \/ DoResume
    \/ DoSetVolume
    \/ PlayUrl_Stop
    \/ PlayUrl_CacheCheck
    \/ PlayUrl_Branch
    \/ PlayUrl_StreamOpened
    \/ PlayUrl_Decode

SpecTransport == InitTransport /\ [][NextTransport]_vars

\* Preload and Play without transport controls, ticks and clock
NextReplay ==
    \/ CallerSend
    \/ Consume
    \/ SendEvent
    \/ Spawn_Acquire
    \/ Recv
    \/ Finish
    \/ PlayUrl_Stop
    \/ PlayUrl_CacheCheck
    \/ PlayUrl_Branch
    \/ PlayUrl_StreamOpened
    \/ PlayUrl_Decode
    \/ PlayFromData_Decode
    \/ PlayFromData_Sink
    \/ PlayFromData_Return
    \/ PlayHls_Fetched(FALSE)
    \/ PlayHlsStream_Fetched
    \/ Download_Init
    \/ Download_Segment
    \/ Preload_Start
    \/ DownloadHlsData_Fetched
    \/ DownloadHlsData_FallbackFetched
    \/ DownloadProgressive_Done

SpecReplay == InitReplay /\ [][NextReplay]_vars

\* progressive Play and Preload with URLs that make the log line panic
NextPanic ==
    \/ CallerSend
    \/ Consume
    \/ Drain
    \/ SendEvent
    \/ Spawn_Acquire
    \/ Recv
    \/ Finish
    \/ Tick
    \/ TickDone
    \/ DoStop
    \/ PlayUrl_Stop
    \/ PlayUrl_Panic
    \/ PlayUrl_CacheCheck
    \/ PlayUrl_Branch
    \/ PlayUrl_StreamOpened
    \/ PlayUrl_Decode
    \/ Preload_Panic
    \/ Preload_Start
    \/ DownloadProgressive_Done

SpecPanic == InitPanic /\ [][NextPanic]_vars

\* calls of the cache module in any order
NextCache ==
    \/ Cache_Write
    \/ Cache_Remove
    \/ Cache_Read
    \/ Cache_Exists

SpecCache == InitCache /\ [][NextCache]_vars

\* the worker between a caller that sends as fast as the channel allows and a
\* consumer that receives or goes away, with the clock standing still; every
\* step of the worker is taken in the end (the network answers, the runtime
\* polls a send that has room), the consumer keeps receiving while it is
\* there, and select! takes a pending command in the end although ticks are
\* ready again and again
NextProgress ==
    \/ CallerSend
    \/ Consume
    \/ DropReceiver
    \/ SendEvent
    \/ Spawn_Acquire
    \/ Recv
    \/ Finish
    \/ Tick
    \/ TickDone
    \/ DoStop
    \/ DoPause
    \/ DoResume
    \/ PlayUrl_Stop
    \/ PlayUrl_CacheCheck
    \/ PlayUrl_Branch
    \/ PlayUrl_StreamOpened
    \/ PlayUrl_Decode

SpecProgress ==
    /\ InitProgress /\ [][NextProgress]_vars
    /\ WF_vars(Consume) /\ WF_vars(SendEvent) /\ WF_vars(Spawn_Acquire)
    /\ SF_vars(Recv) /\ WF_vars(Finish) /\ WF_vars(TickDone)
    /\ WF_vars(DoStop) /\ WF_vars(DoPause) /\ WF_vars(DoResume)
    /\ WF_vars(PlayUrl_Stop) /\ WF_vars(PlayUrl_CacheCheck) /\ WF_vars(PlayUrl_Branch)
    /\ WF_vars(PlayUrl_StreamOpened) /\ WF_vars(PlayUrl_Decode)

\* the user interface with the worker behind it, the clock standing still
NextUi ==
    \/ UserPlayTrack
    \/ UserNextTrack
    \/ UiUpdate
    \/ LookupDone
    \/ UiSend
    \/ UiConsume
    \/ UiDrain
    \/ SendEvent
    \/ Spawn_Acquire
    \/ Recv
    \/ Finish
    \/ Tick
    \/ TickDone
    \/ DoSetVolume
    \/ PlayUrl_Stop
    \/ PlayUrl_CacheCheck
    \/ PlayUrl_Branch
    \/ PlayUrl_StreamOpened
    \/ PlayUrl_Decode

SpecUi == InitUi /\ [][NextUi]_vars

\* the parser applied to a playlist
NextParse == Parse_Apply

SpecParse == InitParse /\ [][NextParse]_vars

\* the transport controls with a worker that keeps running: the interval keeps
\* firing, the worker is scheduled, and the consumer keeps receiving
SpecLive ==
    /\ InitTransport /\ [][NextTransport]_vars
    /\ WF_vars(Tick) /\ WF_vars(TickDone) /\ WF_vars(SendEvent) /\ WF_vars(Consume)

(***************************** properties *********************************)
Range(q) == {q[i] : i \in DOMAIN q}
CountKind(q, kind) == Cardinality({i \in DOMAIN q : q[i][1] = kind})
HasKind(q, kind) == \E i \in DOMAIN q : q[i][1] = kind

\* the handler of the current command has run to its end and all its sends are complete
CmdDone == pc = "done" /\ outbox = <<>> /\ cur # NoCmd

\* the step that handles a Stop command
StopStep == pc = "cmd" /\ cur.kind = "Stop" /\ pc' = "done"

\* C1: a Stop handled while no sink is active sends no event and leaves sink, volume,
\* start marker, accumulator and paused flag unchanged; a Stop handled while a sink is
\* active sends exactly one Stopped and leaves no sink; hence the second of two
\* consecutive Stops sends nothing.
C1_StopIdempotent ==
    [][ StopStep =>
          /\ (sink = None => outbox' = <<>> /\ UNCHANGED vEng)
          /\ (sink # None => outbox' = <<Stopped>> /\ sink' = None)
          /\ (last_kind = "Stop" => outbox' = <<>>) ]_vars

\* a second consecutive Stop has completed silently after a sink had been installed
C1_Witness ==
    /\ CmdDone /\ cur.kind = "Stop" /\ last_kind = "Stop"
    /\ emitted = <<>> /\ peak_sinks = 1

\* C2: a Play whose primary manifest and whose resolver-provided manifest both need the
\* fallback has, when it completes, sent exactly one DrmProtected, invoked the resolver
\* exactly once, fetched nothing but the two manifests and decoded nothing.
C2_OneDrmProtected ==
    (CmdDone /\ cur.kind = "Play" /\ fb_protected) =>
        /\ CountKind(emitted, "DrmProtected") = 1
        /\ resolver_calls = 1
        /\ fetches = 2
        /\ decoded = <<>>

C4_TickDuringCommand ==
    (pc \in NetPcs /\ was_playing /\ IsSome(sink) /\ Unwrap(sink).empty) => ENABLED Tick

\* C5: while Pause and Resume have strictly alternated since the sink was installed,
\* the elapsed value a tick puts into Position is the time the sink has spent not paused.
C5_ElapsedIsUnpausedTime ==
    [][ (pc = "select" /\ pc' = "tick" /\ alt /\ HasKind(outbox', "Position"))
          => outbox' = <<Position(unpaused)>> ]_vars

\* after one time unit playing, one paused and one more playing, Position reports 2 at time 3
C5_Witness ==
    /\ pc = "tick" /\ outbox = <<Position(2)>>
    /\ alt /\ now = 3 /\ accumulated_time = 1 /\ last_kind = "Resume"

\* C6: a Play that has sent Error has no sink when it completes, and if it sent
\* Buffering(true) it has also sent Buffering(false).
C6_FailedPlayCleansUp ==
    (CmdDone /\ cur.kind = "Play" /\ HasKind(emitted, "Error")) =>
        /\ sink = None
        /\ (Buffering(TRUE) \in Range(emitted) => Buffering(FALSE) \in Range(emitted))

\* the rule of the specification: keyformat contains one of the four substrings, or
\* method contains AES and a key URI is present
FallbackRule(enc) ==
    \/ /\ IsSome(enc.keyformat)
       /\ \E m \in {S_playready, S_widevine, S_fairplay, S_urnuuid} :
            Contains(Unwrap(enc.keyformat), m)
    \/ Contains(enc.method, S_AES) /\ IsSome(enc.uri)

\* C7: Play and Preload enter the fallback branch exactly for the descriptors the rule
\* names; for an absent or any other descriptor they go on to the segment download
\* without a resolver call.
C7_FallbackRule ==
    IsSome(decision) =>
        LET d == Unwrap(decision) IN
        /\ d.fallback <=> (IsSome(d.enc) /\ FallbackRule(Unwrap(d.enc)))
        /\ ~d.fallback => resolver_calls = 0 /\ pc \in {"seg_init", "seg_fetch", "done"}
        /\ d.fallback => pc \in {"hls_fetch_fallback", "pre_fetch_fallback", "done"}

\* a Preload has entered the fallback branch for an AES descriptor with a key URI and
\* no keyformat, and the resolver has answered
C7_Witness ==
    /\ IsSome(decision) /\ Unwrap(decision).fallback
    /\ Unwrap(Unwrap(decision).enc).keyformat = None
    /\ cur.kind = "Preload" /\ pc = "pre_fetch_fallback"

\* C8: no more than one Sink object is ever alive.
C8_AtMostOneSink == peak_sinks <= 1

\* a Play has discarded the sink it found and installed its own
C8_Witness ==
    /\ CmdDone /\ cur.kind = "Play"
    /\ emitted # <<>> /\ Head(emitted) = Stopped /\ HasKind(emitted, "Playing")
    /\ sink # None /\ peak_sinks = 1

\* C9: a command is dequeued only when the handler of the previous one has returned
\* and all its events are in the channel, the k-th command dequeued is the k-th sent,
\* and the events in the channel are in the order of the commands that caused them.
C9_SequentialCommands ==
    /\ [](\A i \in 1..(Len(evq_by) - 1) : evq_by[i] <= evq_by[i + 1])
    /\ [][ handled' # handled =>
             /\ pc = "select" /\ outbox = <<>>
             /\ handled' = handled + 1
             /\ Head(cmdq_id) = handled + 1
             /\ cur' = Head(cmdq) ]_vars

\* the channel holds an event of the first command followed by one of the second
C9_Witness == evq_by = <<1, 2>> /\ handled = 2 /\ pc \in NetPcs

\* C10: the body of a non-2xx response is never decoded or cached, a Play that
\* received one ends with Error and no sink, and a Preload that received one ends
\* with no event and no cache entry.
C10_Non2xxIsAnError ==
    /\ \A i \in DOMAIN decoded : ErrTok \notin Range(decoded[i])
    /\ \A id \in TrackIds : IsSome(cache[cache_path(id)]) => ErrTok \notin Range(Unwrap(cache[cache_path(id)]))
    /\ (CmdDone /\ bad_status /\ cur.kind = "Play") =>
          HasKind(emitted, "Error") /\ sink = None
    /\ (CmdDone /\ bad_status /\ cur.kind = "Preload") =>
          emitted = <<>> /\ ~has_cached(cache, cur.track_id)

\* no command is queued or will be sent, and the worker is in its loop
Quiet == sent = Len(menu) /\ cmdq = <<>> /\ pc \in {"select", "tick"}

\* C11: once no command arrives any more, a drained sink of a Play leads to Finished on
\* the event channel, and every tick taken while the sink of the last Play is neither
\* drained nor paused queues a Position.
C11_CompletionWithoutCommands ==
    /\ (Quiet /\ was_playing /\ IsSome(sink) /\ Unwrap(sink).empty)
          ~> (Quiet /\ Finished \in Range(evq))
    /\ [][ (pc = "select" /\ pc' = "tick" /\ hist.since = "Play"
              /\ IsSome(sink) /\ ~Unwrap(sink).empty /\ ~is_paused)
            => HasKind(outbox', "Position") ]_vars

\* with all commands handled, a tick has found the sink drained and Finished is on the channel
C11_Witness ==
    /\ Quiet /\ sent = MaxTransportCmds /\ handled = MaxTransportCmds
    /\ Finished \in Range(evq) /\ ~was_playing /\ IsSome(sink)

\* C12: Finished is queued only by a tick that finds a drained sink while the last of
\* Play and Stop handled is a Play, and at most once after each Play.
C12_FinishedOncePerPlay ==
    /\ [](hist.fin <= 1)
    /\ [][ (Finished \in Range(outbox') /\ outbox' # outbox)
            => /\ pc = "select" /\ pc' = "tick"
               /\ hist.since = "Play" /\ hist.fin = 0
               /\ IsSome(sink) /\ Unwrap(sink).empty ]_vars

\* after Finished a Resume was handled and the following tick queued nothing
C12_Witness ==
    /\ hist.fin = 1 /\ last_kind = "Resume" /\ pc = "tick" /\ outbox = <<>>
    /\ IsSome(sink) /\ Unwrap(sink).empty /\ ~is_paused

\* C14: Ready is sent at most once and is the first event whenever the device was
\* acquired, no command is dequeued before it is sent; after a failed acquisition
\* the only event is one Error, no command is ever dequeued and nothing more is sent.
C14_StartupProtocol ==
    /\ [](hist.readies <= 1)
    /\ [](handled > 0 => hist.first = "Ready" /\ hist.readies = 1)
    /\ [](pc \notin {"boot", "dead"} =>
            \/ hist.first = "Ready"
            \/ hist.first = "none" /\ outbox = <<Ready>>)
    /\ [](pc = "dead" =>
            /\ handled = 0 /\ cur = NoCmd /\ hist.readies = 0
            /\ Len(outbox) + Len(evq) <= 1
            /\ \A e \in Range(outbox) \cup Range(evq) : e[1] = "Error"
            /\ (hist.first = "none") = (outbox # <<>>))
    /\ [][ pc = "dead" =>
             /\ pc' = "dead" /\ handled' = handled
             /\ Len(outbox') + Len(evq') <= Len(outbox) + Len(evq) ]_vars

\* the device could not be acquired, the Error has been received, and a command
\* sent afterwards stays in the channel
C14_Witness ==
    /\ pc = "dead" /\ hist.first = "Error" /\ evq = <<>> /\ outbox = <<>>
    /\ cmdq # <<>> /\ handled = 0

\* the current Play has handed a buffer to the decoder and the decoder accepted it
DecodeSucceeded ==
    /\ decoded # <<>>
    /\ Error("Failed to decode") \notin Range(emitted)
    /\ Error("Failed to decode cached audio") \notin Range(emitted)

\* the sink is the one a Play has just installed
FreshSinkState ==
    /\ IsSome(sink) /\ Unwrap(sink).volume = volume /\ ~Unwrap(sink).paused
    /\ ~is_paused /\ accumulated_time = 0
    /\ IsSome(playback_start) /\ Unwrap(playback_start) <= now

\* C13 as amended: a Play queues Playing only in the step that installs a new sink
\* with the engine's volume, paused flag false, accumulator zero and start marker
\* set to the time of that step; this state holds from then until the Play completes;
\* and a Play whose buffer decoded ends either so or, when no sink could be created,
\* with Error and no sink.
C13_PlayingAfterInstall ==
    /\ [][ (cur.kind = "Play" /\ Playing \in Range(outbox') /\ outbox' # outbox)
            => /\ sink = None /\ sink' = Some(NewSink(volume)) /\ volume' = volume
               /\ ~is_paused' /\ accumulated_time' = 0
               /\ playback_start' = Some(now) ]_vars
    /\ []((cur.kind = "Play" /\ Playing \in Range(outbox) \cup Range(emitted))
            => FreshSinkState)
    /\ []((CmdDone /\ cur.kind = "Play" /\ DecodeSucceeded)
            => \/ Playing \in Range(emitted)
               \/ Error("Failed to create sink") \in Range(emitted) /\ sink = None)

\* a Play handled after SetVolume and after some time has installed its sink
C13_Witness ==
    /\ CmdDone /\ cur.kind = "Play" /\ Playing \in Range(emitted)
    /\ volume = F(5) /\ Unwrap(sink).volume = F(5)
    /\ now > 0 /\ playback_start = Some(now)

\* C13 as claimed: a Play whose buffer decoded ends with a sink in the state of a
\* sink just installed and with Playing sent.
C13_AsClaimed ==
    (CmdDone /\ cur.kind = "Play" /\ DecodeSucceeded)
        => FreshSinkState /\ Playing \in Range(emitted)

\* init followed by the payloads of segments 1..n, for a manifest with n segments
Expected(pl) ==
    (IF IsSome(pl.init_segment_url) THEN <<InitTok>> ELSE <<>>)
        \o [i \in 1..Len(pl.segments) |-> SegTok(i)]

\* C20: when every segment request returned its payload, the buffer a Play hands to
\* the decoder, and the buffer a Preload hands to the cache, is the init payload (if
\* the manifest has one) followed by the payloads of all media segments in manifest
\* order; the hand-over happens after the last segment only.
C20_AssemblyOrder ==
    /\ (cur.kind = "Play" /\ ~from_cache /\ playlist.segments # <<>> /\ decoded # <<>>)
          => /\ seg_i = Len(playlist.segments)
             /\ hist.clean => decoded = <<Expected(playlist)>>
    /\ (cur.kind = "Preload" /\ playlist.segments # <<>> /\ pc = "done" /\ buf # <<>>)
          => /\ seg_i = Len(playlist.segments)
             /\ hist.clean => buf = Expected(playlist)
             /\ (hist.clean /\ PreloadComplete(cur.track_id) \in Range(outbox) \cup Range(emitted))
                   => cache[cache_path(cur.track_id)] = Some(Expected(playlist))

\* a Play has decoded init, segment 1, segment 2 of a manifest with a map and two segments
C20_Witness ==
    /\ CmdDone /\ cur.kind = "Play" /\ hist.clean
    /\ decoded = << <<InitTok, SegTok(1), SegTok(2)>> >> /\ Playing \in Range(emitted)

\* C16: a Preload that found no entry and ends without PreloadComplete has sent no
\* event and has left no cache entry for its track.
C16_FailedPreloadLeavesNothing ==
    (CmdDone /\ cur.kind = "Preload" /\ lookup = "absent"
        /\ PreloadComplete(cur.track_id) \notin Range(emitted))
      => emitted = <<>> /\ ~has_cached(cache, cur.track_id)

\* C17: a Preload that finds its track cached sends PreloadComplete and nothing else,
\* makes no request and no resolver call, and never changes the cache.
C17_PreloadOfCachedTrack ==
    /\ [](lookup = "cached" =>
            /\ cur.kind = "Preload" /\ pc = "done"
            /\ fetches = 0 /\ resolver_calls = 0
            /\ emitted \o outbox = <<PreloadComplete(cur.track_id)>>
            /\ has_cached(cache, cur.track_id))
    /\ [][ (pc = "cmd" /\ pc' # "cmd" /\ cur.kind = "Preload"
              /\ has_cached(cache, cur.track_id))
            => lookup' = "cached" /\ cache' = cache ]_vars
    /\ [][ lookup = "cached" => cache' = cache ]_vars

\* a Preload of a cached track has completed and the entry is the one that was there
C17_Witness ==
    /\ CmdDone /\ cur.kind = "Preload" /\ lookup = "cached"
    /\ emitted = <<PreloadComplete(1)>> /\ cache[cache_path(1)] = Some(<<ProgTok>>)

\* C19: when a Play classifies its manifest for the fallback and ends in that step
\* (no usable permalink, or the resolver fails), it queues one DrmProtected carrying
\* the key format (or "encrypted") and the permalink (or ""), followed by
\* Buffering(false); the resolver is not called without a non-empty permalink; and a
\* Play that sent DrmProtected sent it once, sent no Error and made one request.
C19_DrmProtectedOnFailedFallback ==
    /\ [][ (cur.kind = "Play" /\ pc = "hls_fetch_playlist" /\ pc' = "done"
              /\ IsSome(decision') /\ Unwrap(decision').fallback)
            => /\ outbox' = <<DrmProtected(drm_type_of(Unwrap(Unwrap(decision').enc)),
                                           track_url_of(cur.permalink_url)),
                              Buffering(FALSE)>>
               /\ resolver_calls' <= 1
               /\ (cur.permalink_url \in {None, Some(<<>>)} => resolver_calls' = 0) ]_vars
    /\ []((cur.kind = "Play" /\ HasKind(emitted, "DrmProtected"))
            => /\ CountKind(emitted, "DrmProtected") = 1
               /\ ~HasKind(emitted, "Error") /\ ~HasKind(outbox, "Error")
               /\ fetches = 1 /\ decoded = <<>> /\ sink = None)

\* the resolver was called once and failed, and the Play has ended with DrmProtected
C19_Witness ==
    /\ CmdDone /\ cur.kind = "Play" /\ resolver_calls = 1
    /\ HasKind(emitted, "DrmProtected") /\ cur.permalink_url = Some(U_page)

Handed == IF decoded # <<>> /\ decoded[1] # <<>> THEN Some(decoded[1]) ELSE None

\* C18: with the same answers from the network and the resolver, the non-empty buffer
\* a Play without track id hands to the decoder is the audio data the Preload of the
\* same stream passed to the cache, and the Play hands over nothing exactly when the
\* Preload had nothing to write.
C18_PreloadSameAsPlay ==
    (CmdDone /\ cur.kind = "Play" /\ cur.track_id = None /\ last_kind = "Preload")
        => Handed = hist.stored.data

\* a volume in the closed interval [0, 1]
InUnit(v) == ~v.nan /\ 0 <= v.tenths /\ v.tenths <= 10

\* the step that handles a SetVolume command
SetVolumeStep == pc = "cmd" /\ cur.kind = "SetVolume" /\ pc' = "done"

\* C21: the stored volume always lies in [0, 1]; SetVolume(v) stores 0 for v below 0,
\* 1 for v above 1 and v otherwise, and gives an active sink the stored volume in
\* the same step.
C21_VolumeClamped ==
    /\ [](InUnit(volume))
    /\ [][ SetVolumeStep =>
             /\ InUnit(volume')
             /\ (Lt(cur.vol, F(0)) => volume' = F(0))
             /\ (Lt(F(10), cur.vol) => volume' = F(10))
             /\ (InUnit(cur.vol) => volume' = cur.vol)
             /\ (IsSome(sink) => IsSome(sink') /\ Unwrap(sink').volume = volume') ]_vars

\* C30: a SetVolume queues and sends no event; its step changes nothing but the stored
\* volume and the volume of the active sink (sink existence and pause state, paused
\* flag, start marker, accumulator, cache and the loop's flag stay); the stored
\* volume changes in no other step, and every sink is created with the stored volume,
\* so that a SetVolume handled without a sink reaches the sink of the next Play.
C30_SetVolumeFrame ==
    /\ [](cur.kind = "SetVolume" => outbox = <<>> /\ emitted = <<>>)
    /\ [][ SetVolumeStep =>
             /\ outbox' = <<>> /\ evq' = evq
             /\ IsSome(sink') = IsSome(sink)
             /\ (IsSome(sink) => sink' = Some([Unwrap(sink) EXCEPT !.volume = volume']))
             /\ UNCHANGED <<is_paused, playback_start, accumulated_time, cache,
                            was_playing>> ]_vars
    /\ [][ volume' # volume => SetVolumeStep ]_vars
    /\ [][ (sink = None /\ sink' # None) => sink' = Some(NewSink(volume)) ]_vars

\* a SetVolume(1.7) was handled while no sink was active and the Play handled next,
\* which found no sink to stop, has created its sink with volume 1
C30_Witness ==
    /\ CmdDone /\ cur.kind = "Play" /\ last_kind = "SetVolume"
    /\ Playing \in Range(emitted) /\ Stopped \notin Range(emitted)
    /\ volume = F(10) /\ Unwrap(sink).volume = F(10)

\* the steps that handle a Pause and a Resume command
PauseStep == pc = "cmd" /\ cur.kind = "Pause" /\ pc' = "done"
ResumeStep == pc = "cmd" /\ cur.kind = "Resume" /\ pc' = "done"

\* C22: a Pause or Resume handled while no sink is active queues no event and leaves
\* sink, volume, start marker, accumulator, paused flag, cache and the loop's flag
\* unchanged; handled while a sink is active, Pause queues exactly Paused, pauses the
\* sink and sets the paused flag, and Resume queues exactly Playing, resumes the sink
\* and clears the flag; neither sends anything else before it completes.
C22_PauseResume ==
    /\ [][ (PauseStep \/ ResumeStep) =>
             /\ (sink = None =>
                   /\ outbox' = <<>>
                   /\ UNCHANGED <<vEng, cache, was_playing, evq>>)
             /\ (sink # None /\ PauseStep =>
                   /\ outbox' = <<Paused>>
                   /\ is_paused' /\ IsSome(sink') /\ Unwrap(sink').paused)
             /\ (sink # None /\ ResumeStep =>
                   /\ outbox' = <<Playing>>
                   /\ ~is_paused' /\ IsSome(sink') /\ ~Unwrap(sink').paused) ]_vars
    /\ []((CmdDone /\ cur.kind = "Pause") => emitted \in {<<>>, <<Paused>>})
    /\ []((CmdDone /\ cur.kind = "Resume") => emitted \in {<<>>, <<Playing>>})
    /\ []((cur.kind \in {"Pause", "Resume"} /\ pc = "done")
             => (sink = None <=> emitted \o outbox = <<>>))

\* a Resume handled after the Pause of a playing sink has sent Playing and nothing
\* else, and the sink plays again
C22_Witness ==
    /\ CmdDone /\ cur.kind = "Resume" /\ last_kind = "Pause" /\ emitted = <<Playing>>
    /\ IsSome(sink) /\ ~Unwrap(sink).paused /\ ~is_paused /\ accumulated_time > 0

\* C23: Position is queued only by a tick, and only when the last of Play and Stop
\* handled is a Play whose sink is active, neither paused nor drained, and no Finished
\* has been queued since that Play; hence none while paused, after Stopped, after
\* Finished or after a failed Play.
C23_PositionOnlyWhilePlaying ==
    /\ [](HasKind(outbox, "Position") => pc = "tick" /\ Len(outbox) = 1)
    /\ [][ (HasKind(outbox', "Position") /\ outbox' # outbox)
            => /\ pc = "select" /\ pc' = "tick"
               /\ IsSome(sink) /\ ~Unwrap(sink).paused /\ ~Unwrap(sink).empty
               /\ ~is_paused
               /\ hist.since = "Play" /\ hist.fin = 0 ]_vars
    /\ [][ (pc = "select" /\ pc' = "tick"
              /\ (is_paused \/ sink = None \/ hist.since # "Play" \/ hist.fin > 0))
            => ~HasKind(outbox', "Position") ]_vars

\* after every command was handled, the last being a Play, a tick has queued the
\* position of its sink
C23_Witness ==
    /\ pc = "tick" /\ HasKind(outbox, "Position") /\ last_kind = "Play"
    /\ handled = MaxTransportCmds /\ hist.since = "Play" /\ hist.fin = 0

\* C26: neither channel ever holds more than its capacity; the caller can send exactly
\* when the command channel has room and the worker's pending send completes exactly
\* when the event channel has room; a pending event leaves the worker only into the
\* channel, the oldest first; and both channels change only by an append at the end
\* or the removal of the head.
C26_BoundedChannels ==
    /\ [](Len(cmdq) <= CmdCap /\ Len(evq) <= EvtCap)
    /\ [](sent < Len(menu) => (ENABLED CallerSend <=> Len(cmdq) < CmdCap))
    /\ [](outbox # <<>> => (ENABLED SendEvent <=> Len(evq) < EvtCap))
    /\ [][ (outbox # <<>> /\ outbox' # outbox)
            => outbox' = Tail(outbox) /\ evq' = Append(evq, Head(outbox)) ]_vars
    /\ [][ evq' # evq
            => \/ evq # <<>> /\ evq' = Tail(evq)
               \/ outbox # <<>> /\ evq' = Append(evq, Head(outbox)) ]_vars
    /\ [][ cmdq' # cmdq
            => \/ cmdq # <<>> /\ cmdq' = Tail(cmdq) /\ cur' = Head(cmdq)
               \/ \E c \in TransportCommands : cmdq' = Append(cmdq, c) ]_vars

\* both channels are full and the worker waits with the rest of a Play's events
C26_Witness ==
    /\ Len(cmdq) = CmdCap /\ Len(evq) = EvtCap /\ outbox # <<>>
    /\ cur.kind = "Play" /\ ~ENABLED SendEvent

\* the Error events a Play can send on the network path
NetworkErrors ==
    {Error("Invalid URL"), Error("Failed to stream"), Error("Failed to decode"),
     Error("Failed to create sink"), Error("Failed to parse HLS"),
     Error("Failed to download HLS segments"), Error("Failed to decode cached audio")}

\* C27: the lookup step of a Play that finds the entry of its track but cannot read it
\* queues Buffering(true) alone, goes on to the choice between HLS and progressive
\* like a miss, and leaves the cache as it is; such a Play goes the network path (it
\* decodes nothing before a request has returned, and nothing taken from the cache),
\* every Error it sends is one of the network path, and the entry is still there
\* when it completes.
C27_UnreadableEntryIsAMiss ==
    /\ [][ (pc = "play_after_stop" /\ lookup' \in {"unreadable", "miss"})
            => /\ outbox' = <<Buffering(TRUE)>>
               /\ pc' = "play_buffering"
               /\ UNCHANGED <<cache, buf, from_cache, vEng, fetch_url>> ]_vars
    /\ [](lookup = "unreadable" =>
            /\ cur.kind = "Play" /\ ~from_cache
            /\ has_cached(cache, Unwrap(cur.track_id))
            /\ \A e \in Range(emitted) \cup Range(outbox) :
                  e[1] = "Error" => e \in NetworkErrors /\ (fetches > 0 \/ e = Error("Invalid URL"))
            /\ (decoded # <<>> => fetches > 0)
            /\ (pc = "done" => fetches > 0 \/ ~url_parses(cur.stream_url))
            /\ Head(emitted \o outbox) \in {Stopped, Buffering(TRUE)})
    /\ [][ lookup = "unreadable" => cache' = cache ]_vars

\* a Play whose cache entry could not be read has fetched its two segments, plays
\* them, and the entry is still in the cache
C27_Witness ==
    /\ CmdDone /\ cur.kind = "Play" /\ lookup = "unreadable"
    /\ Playing \in Range(emitted) /\ fetches = 3 /\ IsSome(sink)
    /\ cache[cache_path(Unwrap(cur.track_id))] = Some(<<ProgTok>>)
    /\ decoded = << <<SegTok(1), SegTok(2)>> >>

\* C29: fetch_playlist answers a master playlist with an error, whatever the URL; a
\* Play that received one has ended in that step with Error and Buffering(false)
\* queued, has no sink and has decoded nothing; a Preload that received one has ended
\* without an event and its track has no cache entry.
C29_MasterManifestRejected ==
    /\ \A resp \in ManifestResponses : \A u \in {U_hls, U_prog} :
          (~resp.err /\ resp.body.kind = "master") =>
              fetch_playlist(resp, u) = Err("Master playlists not yet supported")
    /\ (hist.master /\ cur.kind = "Play") =>
          /\ pc = "done" /\ sink = None /\ decoded = <<>>
          /\ Error("Failed to parse HLS") \in Range(emitted) \cup Range(outbox)
          /\ Playing \notin Range(emitted) \cup Range(outbox)
          /\ CountKind(emitted \o outbox, "Error") = 1
    /\ (hist.master /\ cur.kind = "Preload") =>
          /\ pc = "done" /\ outbox = <<>> /\ emitted = <<>>
          /\ ~has_cached(cache, cur.track_id)

\* a Play that discarded the playing sink has received a master playlist and has
\* completed with Error
C29_Witness ==
    /\ CmdDone /\ cur.kind = "Play" /\ hist.master /\ fetches = 1
    /\ emitted = <<Stopped, Buffering(TRUE), Error("Failed to parse HLS"), Buffering(FALSE)>>

C24_PanicIsContained ==
    /\ [][ (pc' = "panicked" /\ pc # "panicked") => HasKind(outbox', "Error") ]_vars
    /\ []((pc = "panicked" /\ outbox = <<>> /\ cmdq # <<>>) => ENABLED Recv)

\* the entries of all tracks but id are the same before and after the step
OthersKept(id) ==
    \A o \in CacheIds \ {id} :
        /\ has_cached(cache', o) = has_cached(cache, o)
        /\ read_cached(cache', o, TRUE) = read_cached(cache, o, TRUE)

LastSeparator(url) ==
    CHOOSE i \in 1..Len(url) : url[i] = "/" /\ \A j \in (i + 1)..Len(url) : url[j] # "/"
DirectoryOf(url) == SubSeq(url, 1, LastSeparator(url) - 1)
IsAbsolute(uri) == Len(uri) >= 4 /\ SubSeq(uri, 1, 4) = <<"h", "t", "t", "p">>
\* what a URI of the playlist becomes, by the rule of the claim
Resolved(url, uri) ==
    IF IsAbsolute(uri) THEN uri ELSE DirectoryOf(url) \o <<"/">> \o uri
Parsed == probe.op = "parse" /\ IsSome(probe.out)

\* C31: in the parsed manifest every segment URI and the init-segment URI is
\* the playlist's URI unchanged when that begins with "http", and otherwise
\* the manifest URL up to its last '/' followed by one '/' and the URI; a
\* segment has a byte range exactly when the playlist gives one, with the
\* same length and, when the playlist gives an offset, the same offset.
C31_UrisResolved ==
    Parsed =>
        LET segs == probe.doc.segments
            out  == Unwrap(probe.out)
        IN  /\ Len(out.segments) = Len(segs)
            /\ \A i \in 1..Len(segs) :
                  /\ out.segments[i].uri = Resolved(probe.url, segs[i].uri)
                  /\ IsSome(out.segments[i].byte_range) <=> IsSome(segs[i].byte_range)
                  /\ IsSome(segs[i].byte_range) =>
                        /\ Unwrap(out.segments[i].byte_range)[1] = Unwrap(segs[i].byte_range).length
                        /\ IsSome(Unwrap(segs[i].byte_range).offset) =>
                              Unwrap(out.segments[i].byte_range)[2]
                                  = Unwrap(Unwrap(segs[i].byte_range).offset)
            /\ IsSome(out.init_segment_url) <=> \E i \in 1..Len(segs) : IsSome(segs[i].map)
            /\ IsSome(out.init_segment_url) =>
                  \E i \in 1..Len(segs) :
                      /\ IsSome(segs[i].map)
                      /\ Unwrap(out.init_segment_url) = Resolved(probe.url, Unwrap(segs[i].map))

\* a playlist in a directory was parsed: its first segment has a relative URI,
\* a byte range with an offset and a relative init segment, its second an
\* absolute URI; the first came out under the directory, the second unchanged
C31_Witness ==
    /\ Parsed
    /\ probe.url = U_dir
    /\ Len(probe.doc.segments) = 2
    /\ probe.doc.segments[1].uri = R_rel
    /\ probe.doc.segments[1].byte_range = Some(ByteRange(5, Some(3)))
    /\ probe.doc.segments[1].map = Some(InitUri)
    /\ probe.doc.segments[2].uri = R_abs
    /\ Unwrap(probe.out).segments[1].uri = <<"s", ":", "/", "d", "/", "g">>
    /\ Unwrap(probe.out).segments[1].byte_range = Some(<<5, 3>>)
    /\ Unwrap(probe.out).segments[2].uri = R_abs
    /\ Unwrap(probe.out).init_segment_url = Some(<<"s", ":", "/", "d", "/", "i">>)

(***************************** C32 *****************************************)
\* the segments of the parsed playlist that carry a key tag
Tagged == {i \in 1..Len(probe.doc.segments) : IsSome(probe.doc.segments[i].key)}

\* C32: the encryption descriptor of a parsed manifest is absent exactly when
\* no segment carries a key tag, and otherwise it is the key tag of the
\* earliest segment that carries one, whatever key tags later segments carry.
C32_FirstKeyTag ==
    Parsed =>
        LET out == Unwrap(probe.out)
        IN  /\ out.encryption = None <=> Tagged = {}
            /\ Tagged # {} =>
                  LET first == CHOOSE i \in Tagged : \A j \in Tagged : i <= j
                      key   == Unwrap(probe.doc.segments[first].key)
                  IN  /\ IsSome(out.encryption)
                      /\ Unwrap(out.encryption).method = key.method
                      /\ Unwrap(out.encryption).uri = key.uri
                      /\ Unwrap(out.encryption).iv = key.iv
                      /\ Unwrap(out.encryption).keyformat = key.keyformat

\* a playlist was parsed whose first segment has a key tag with METHOD=NONE
\* and whose second has AES-128 with a key URI: the descriptor is the first's
C32_Witness ==
    /\ Parsed
    /\ Len(probe.doc.segments) = 2
    /\ probe.doc.segments[1].key = Some(KeyTag(M_none, None, None))
    /\ probe.doc.segments[2].key = Some(KeyTag(M_aes128, Some(U_key), None))
    /\ Unwrap(probe.out).encryption = Some(KeyTag(M_none, None, None))

(***************************** C33 *****************************************)
\* C33: from the Finished of a Play until the next Play has been handled, a
\* Pause, a Resume and a Stop queue no event.
C33_StoppedAfterFinished ==
    [][ (hist.fin > 0 /\ (PauseStep \/ ResumeStep \/ StopStep)) => outbox' = <<>> ]_vars

(***************************** C34 *****************************************)
\* the events of the current command that end a Play
Terminal(q) == CountKind(q, "Playing") + CountKind(q, "Error") + CountKind(q, "DrmProtected")

\* C34: when the handler of a Play has returned and its sends are complete, it
\* has sent exactly one event out of Playing, Error and DrmProtected, and a
\* sink is installed exactly when that event is Playing.
C34_OneTerminalEvent ==
    (CmdDone /\ cur.kind = "Play") =>
        /\ Terminal(emitted) = 1
        /\ IsSome(sink) <=> HasKind(emitted, "Playing")

\* a Play of a segmented stream has returned with Playing as its one terminal
\* event and its sink installed
C34_Witness ==
    /\ CmdDone /\ cur.kind = "Play" /\ cur.stream_url = U_hls
    /\ emitted[Len(emitted)] = Playing
    /\ Terminal(emitted) = 1 /\ IsSome(sink)

(***************************** C35 *****************************************)
CountEvent(q, e) == Cardinality({i \in DOMAIN q : q[i] = e})

\* C35: a Play that took its audio from the disk cache has sent no Buffering
\* event; any other Play has sent Buffering(true) once and Buffering(false)
\* once, and has sent Buffering(true) before its first request.
C35_BufferingOnNetworkPathOnly ==
    /\ []((CmdDone /\ cur.kind = "Play") =>
            IF from_cache
            THEN ~HasKind(emitted, "Buffering")
            ELSE /\ CountEvent(emitted, Buffering(TRUE)) = 1
                 /\ CountEvent(emitted, Buffering(FALSE)) = 1)
    /\ []((cur.kind = "Play" /\ fetches > 0) => Buffering(TRUE) \in Range(emitted))

(***************************** C36 *****************************************)
\* the elapsed time a tick would report: the time since the start marker plus
\* the accumulator
Elapsed ==
    accumulated_time + (IF IsSome(playback_start) THEN now - Unwrap(playback_start) ELSE 0)

\* C36: a Resume handled while the sink is playing and a Pause handled while
\* it is paused leave the elapsed time unchanged, so that later Position
\* events report what they would have reported without the command.
C36_RedundantCommandsKeepElapsed ==
    [][ (\/ ResumeStep /\ IsSome(sink) /\ ~is_paused
         \/ PauseStep /\ IsSome(sink) /\ is_paused) => Elapsed' = Elapsed ]_vars

(***************************** C37 *****************************************)
\* the sink apart from whether its source has drained
SinkSetting == IF IsSome(sink) THEN Some([Unwrap(sink) EXCEPT !.empty = FALSE]) ELSE None

WorkerBlocked == outbox # <<>> /\ evt_rx_open /\ Len(evq) = EvtCap
CallerBlocked == sent < Len(menu) /\ Len(cmdq) = CmdCap
\* the worker has entered its loop
Started == pc \notin {"boot", "dead"}
\* the handler of the k-th command has returned
Completed(k) == handled > k \/ (handled = k /\ cur = NoCmd)
\* every command in the channel of a running worker is handled in the end
AllHandled == \A k \in 1..MaxProgressCmds : (sent >= k /\ Started) ~> Completed(k)
\* once the receiver is gone a pending send can always complete
NoWaitForLostReceiver == []((~evt_rx_open /\ outbox # <<>>) => ENABLED SendEvent)

UiQuiescent ==
    /\ ui.lookups = {} /\ ui.inbox = <<>> /\ ui.todo = <<>>
    /\ cmdq = <<>> /\ pc = "select" /\ cur = NoCmd /\ outbox = <<>>
\* the track whose stream a URL is
TrackOfUrl(url) == CHOOSE t \in UiTracks : StreamUrlOf(t) = url
\* every Play sent carries the permalink_url of the track whose stream it plays
PermalinkMatches ==
    \A i \in DOMAIN ui.log :
        ui.log[i].permalink_url = PermalinkOf(TrackOfUrl(ui.log[i].stream_url))
\* a sink that has not played to its end plays the stream of the user
\* interface's current track
PlayingIsCurrent ==
    (IsSome(sink) /\ ~Unwrap(sink).empty) =>
        /\ ui.log # <<>> /\ IsSome(ui.current_track)
        /\ ui.log[Len(ui.log)].stream_url = StreamUrlOf(Unwrap(ui.current_track))

\* C39: every Play sent carries the permalink_url of the track of its
\* stream_url, and once all lookups have returned and all commands are handled
\* the sink, unless it has played to its end, plays the stream of current_track.
C39_LookupsMatchSelection ==
    /\ PermalinkMatches
    /\ UiQuiescent => PlayingIsCurrent

(***************************** C40 *****************************************)
\* update() handles the message m, which is the first one waiting
UpdateStep(m) ==
    /\ ui.inbox # <<>> /\ Head(ui.inbox) = m /\ ui.todo = <<>>
    /\ ui' # ui /\ ui'.selected = ui.selected /\ ui'.lookups = ui.lookups /\ evq' = evq
\* the message taken, and the message taken with a request for the track at index i
Taken == [ui EXCEPT !.inbox = Tail(@)]
Requested(i) ==
    [ui EXCEPT !.inbox = Append(Tail(@),
        MsgPlayTrackInPlaylist(ui.current_playlist[i + 1], ui.current_playlist, i))]

\* C40: a Finished event makes the user interface advance; advancing requests
\* the track at playlist_index + 1 of the current playlist, or from the last
\* track the one at index 0 when the repeat mode is All, and otherwise requests
\* nothing and sets the status to Stopped; with an empty playlist it does
\* nothing; every request names an index inside its playlist and the track there.
C40_AutoAdvance ==
    /\ [][ UpdateStep(MsgAudioEvent(Finished))
             => ui' = [ui EXCEPT !.inbox = Append(Tail(@), MsgNextTrack)] ]_vars
    /\ [][ UpdateStep(MsgNextTrack) =>
             LET n == Len(ui.current_playlist)
                 i == ui.playlist_index
             IN  IF n = 0 THEN ui' = Taken
                 ELSE IF i + 1 < n THEN ui' = Requested(i + 1)
                 ELSE IF ui.repeat_mode = "All" THEN ui' = Requested(0)
                 ELSE ui' = [Taken EXCEPT !.playback_status = "Stopped"] ]_vars
    /\ [](\A k \in DOMAIN ui.inbox :
             ui.inbox[k].msg = "PlayTrackInPlaylist" =>
                 /\ ui.inbox[k].index \in 0..(Len(ui.inbox[k].playlist) - 1)
                 /\ ui.inbox[k].playlist[ui.inbox[k].index + 1] = ui.inbox[k].track)
    /\ [](ui.current_playlist = <<>> \/ ui.playlist_index < Len(ui.current_playlist))

\* with repeat mode All the second and last track of the Likes list, the only
\* one the user selected, has finished and the first track has been requested
C40_Witness ==
    /\ ui.repeat_mode = "All" /\ ui.selected = 1
    /\ ui.current_playlist = Likes /\ ui.playlist_index = 1
    /\ hist.fin = 1
    /\ ui.inbox = <<MsgPlayTrackInPlaylist(1, Likes, 0)>>

=============================================================================
